---- MODULE Spec2Model ----
(***************************************************************************)
(* Block-based image quantisation codecs (QImg, GradImg, GradRgb): box     *)
(* partitioning, tone averaging, compression, and the binary protocol      *)
(* (toBuffer / fromBuffer).                                                *)
(*                                                                         *)
(* Arithmetic.  JavaScript numbers are modelled by integers.  The two      *)
(* non-numeric outcomes the code can produce, NaN (0/0) and undefined (a   *)
(* read past the end of an array), are the two values NaN and Undefined    *)
(* below.  Luminance is kept in fixed point (see getLuminance) and the     *)
(* mean luminance as the exact fraction total/n; the rounding of IEEE-754  *)
(* doubles is not represented.                                             *)
(***************************************************************************)
EXTENDS Integers, Sequences, FiniteSets, TLC

\* ------------------------------------------------------------------ bounds
\* Largest width, height of the small input images, largest regular boxSize,
\* the longest prefix a damaged file keeps, and the side of the square
\* input images.
MaxWidth == 3
MaxHeight == 2
MaxBoxSize == 2
MaxTruncatedLength == 20
MaxUniformSide == 5

\* ------------------------------------------------------------ JS values
NaN == -999999
Undefined == -999998

IsNumber(v) == v # NaN /\ v # Undefined

\* Largest value of one byte of the file format; the limit tested by toBuffer.
MAX_BYTE == 255

\* Uint8Array.from(bytes): ToUint8 of each element; NaN and undefined give 0.
ToUint8(v) == IF IsNumber(v) THEN v % (MAX_BYTE + 1) ELSE 0

\* array[i] of a JS array: undefined past the end.  i is the 0-based JS index.
At(array, i) == IF i >= 0 /\ i < Len(array) THEN array[i + 1] ELSE Undefined

\* array.slice(from, to) with 0 <= from <= to, clipped to the array's length.
Slice(array, from, to) ==
    LET lo == IF from > Len(array) THEN Len(array) ELSE from
        hi == IF to > Len(array) THEN Len(array) ELSE to
    IN  IF hi <= lo THEN << >> ELSE SubSeq(array, lo + 1, hi)

\* a * b of JS numbers: NaN when either operand is NaN or undefined.
Times(a, b) == IF IsNumber(a) /\ IsNumber(b) THEN a * b ELSE NaN

\* a / b for the quotients the code forms (the covered width or height by
\* boxSize, always a multiple of it): NaN for 0/0 and for non-numbers.
Quotient(a, b) ==
    IF ~(IsNumber(a) /\ IsNumber(b)) THEN NaN
    ELSE IF b = 0 THEN NaN
    ELSE IF b < 0 THEN (0 - a) \div (0 - b)
    ELSE a \div b

\* Math.floor(a / b) of two integers, b not 0.
FloorQuotient(a, b) == IF b < 0 THEN (0 - a) \div (0 - b) ELSE a \div b

\* a > n of JS numbers: false when a is NaN or undefined.
GreaterThan(a, n) == IsNumber(a) /\ a > n

\* a + b of JS numbers: NaN when either operand is NaN or undefined.
Plus(a, b) == IF IsNumber(a) /\ IsNumber(b) THEN a + b ELSE NaN

\* Math.floor(total / n): NaN for 0 / 0 (an empty partition).
FloorMean(total, n) == IF n = 0 \/ ~IsNumber(total) THEN NaN ELSE total \div n

\* list.reduce((p, c) => p + c, 0)
RECURSIVE Sum(_)
Sum(s) == IF s = << >> THEN 0 ELSE Plus(Head(s), Sum(Tail(s)))

\* The sequences numbered lo..hi of ss, one after the other.
RECURSIVE ConcatRange(_, _, _)
ConcatRange(ss, lo, hi) ==
    IF lo > hi THEN << >>
    ELSE IF lo = hi THEN ss[lo]
    ELSE ConcatRange(ss, lo, (lo + hi) \div 2)
         \o ConcatRange(ss, ((lo + hi) \div 2) + 1, hi)

Concat(ss) == ConcatRange(ss, 1, Len(ss))

\* ----------------------------------------------------------- input images
Color(r, g, b) == [r |-> r, g |-> g, b |-> b]

\* The colours the input images are painted with.
Palette ==
    << Color(0, 0, 0), Color(255, 255, 255), Color(0, 192, 0),
       Color(255, 0, 0), Color(255, 0, 255) >>

\* ImageData: width, height and the flat RGBA byte array (alpha 255).  The
\* pixel at (x, y) has the palette colour number (c + a*x + b*y) mod |Palette|.
PatternImage(w, h, a, b, c) ==
    [ width  |-> w,
      height |-> h,
      data   |-> [ k \in 1..(4 * w * h) |->
                     LET p  == (k - 1) \div 4
                         ch == (k - 1) % 4
                         col == Palette[((c + a * (p % w) + b * (p \div w)) % Len(Palette)) + 1]
                     IN  CASE ch = 0 -> col.r
                           [] ch = 1 -> col.g
                           [] ch = 2 -> col.b
                           [] OTHER  -> 255 ] ]

\* Small images of every size, one-row images one box wider than the format
\* can describe, two-row images of MAX_BYTE + 1 pixels, and square images of
\* one colour or of vertical stripes.
Images ==
    { PatternImage(w, h, a, b, c) :
        w \in 1..MaxWidth, h \in 1..MaxHeight,
        a \in 0..(Len(Palette) - 1), b \in 0..(Len(Palette) - 1),
        c \in 0..(Len(Palette) - 1) }
    \cup
    { PatternImage(MAX_BYTE + 1, 1, a, 0, c) :
        a \in 0..(Len(Palette) - 1), c \in 0..(Len(Palette) - 1) }
    \cup
    { PatternImage((MAX_BYTE + 1) \div 2, 2, a, 0, c) :
        a \in 0..(Len(Palette) - 1), c \in 0..(Len(Palette) - 1) }
    \cup
    { PatternImage(MaxUniformSide, MaxUniformSide, a, 0, c) :
        a \in {0, 1}, c \in 0..(Len(Palette) - 1) }

\* The boxSize options tried: the regular ones, the side of the square
\* images, and one too large to serialise.
BoxSizes == (1..MaxBoxSize) \cup {MaxUniformSide, MAX_BYTE + 1}

\* The boxSize options that are no box size: zero, a negative one, and the
\* option left out.
InvalidBoxSizes == { 0, -1, Undefined }

\* ------------------------------------------------------- splitIntoBoxes
\* The index with the column one too far to the right.
PixelIndex_offByOne(imageData, xStart, yStart, x1, y1) ==
    ((yStart + y1) * imageData.width) + (xStart + x1 + 1)

\* index of the source pixel read for box pixel (x1, y1) of the box whose
\* origin is (xStart, yStart).
PixelIndex(imageData, xStart, yStart, x1, y1) ==
    ((yStart + y1) * imageData.width) + (xStart + x1)

\* splitIntoBoxes with the loop over x outside the loop over y.
splitIntoBoxes_columnMajor(imageData, boxSize) ==
    LET size == [ width  |-> boxSize * FloorQuotient(imageData.width, boxSize),
                  height |-> boxSize * FloorQuotient(imageData.height, boxSize) ]
        \* the loops "x < size.width / boxSize" run no round for a negative bound
        wide == IF FloorQuotient(size.width, boxSize) > 0
                THEN FloorQuotient(size.width, boxSize) ELSE 0
        high == IF FloorQuotient(size.height, boxSize) > 0
                THEN FloorQuotient(size.height, boxSize) ELSE 0
        Pixel(xStart, yStart, j) ==
            LET x1 == (j - 1) % boxSize
                y1 == (j - 1) \div boxSize
                index == PixelIndex(imageData, xStart, yStart, x1, y1)
            IN  [ x |-> x1, y |-> y1,
                  color |-> [ r |-> At(imageData.data, index * 4),
                              g |-> At(imageData.data, index * 4 + 1),
                              b |-> At(imageData.data, index * 4 + 2) ] ]
        Box(i) ==
            LET x == (i - 1) \div high
                y == (i - 1) % high
            IN  [ x |-> x, y |-> y, size |-> boxSize,
                  data |-> [ j \in 1..(boxSize * boxSize) |->
                               Pixel(x * boxSize, y * boxSize, j) ] ]
    IN  [ size |-> size, data |-> [ i \in 1..(wide * high) |-> Box(i) ] ]

\* splitIntoBoxes with every box recorded in the column 0.
splitIntoBoxes_unplaced(imageData, boxSize) ==
    LET size == [ width  |-> boxSize * FloorQuotient(imageData.width, boxSize),
                  height |-> boxSize * FloorQuotient(imageData.height, boxSize) ]
        \* the loops "x < size.width / boxSize" run no round for a negative bound
        wide == IF FloorQuotient(size.width, boxSize) > 0
                THEN FloorQuotient(size.width, boxSize) ELSE 0
        high == IF FloorQuotient(size.height, boxSize) > 0
                THEN FloorQuotient(size.height, boxSize) ELSE 0
        Pixel(xStart, yStart, j) ==
            LET x1 == (j - 1) % boxSize
                y1 == (j - 1) \div boxSize
                index == PixelIndex(imageData, xStart, yStart, x1, y1)
            IN  [ x |-> x1, y |-> y1,
                  color |-> [ r |-> At(imageData.data, index * 4),
                              g |-> At(imageData.data, index * 4 + 1),
                              b |-> At(imageData.data, index * 4 + 2) ] ]
        Box(i) ==
            LET x == (i - 1) % wide
                y == (i - 1) \div wide
            IN  [ x |-> 0, y |-> y, size |-> boxSize,
                  data |-> [ j \in 1..(boxSize * boxSize) |->
                               Pixel(x * boxSize, y * boxSize, j) ] ]
    IN  [ size |-> size, data |-> [ i \in 1..(wide * high) |-> Box(i) ] ]

splitIntoBoxes(imageData, boxSize) ==
    LET size == [ width  |-> boxSize * FloorQuotient(imageData.width, boxSize),
                  height |-> boxSize * FloorQuotient(imageData.height, boxSize) ]
        \* the loops "x < size.width / boxSize" run no round for a negative bound
        wide == IF FloorQuotient(size.width, boxSize) > 0
                THEN FloorQuotient(size.width, boxSize) ELSE 0
        high == IF FloorQuotient(size.height, boxSize) > 0
                THEN FloorQuotient(size.height, boxSize) ELSE 0
        Pixel(xStart, yStart, j) ==
            LET x1 == (j - 1) % boxSize
                y1 == (j - 1) \div boxSize
                index == PixelIndex(imageData, xStart, yStart, x1, y1)
            IN  [ x |-> x1, y |-> y1,
                  color |-> [ r |-> At(imageData.data, index * 4),
                              g |-> At(imageData.data, index * 4 + 1),
                              b |-> At(imageData.data, index * 4 + 2) ] ]
        Box(i) ==
            LET x == (i - 1) % wide
                y == (i - 1) \div wide
            IN  [ x |-> x, y |-> y, size |-> boxSize,
                  data |-> [ j \in 1..(boxSize * boxSize) |->
                               Pixel(x * boxSize, y * boxSize, j) ] ]
    IN  [ size |-> size, data |-> [ i \in 1..(wide * high) |-> Box(i) ] ]

\* ---------------------------------------------------------- getLuminance
RECURSIVE SqrtSearch(_, _, _)
SqrtSearch(n, lo, hi) ==
    IF lo >= hi THEN lo
    ELSE LET mid == (lo + hi + 1) \div 2
         IN  IF mid * mid <= n THEN SqrtSearch(n, mid, hi)
             ELSE SqrtSearch(n, lo, mid - 1)

\* Math.sqrt, rounded down to an integer.
Sqrt(n) == SqrtSearch(n, 0, 46340)

\* sqrt(0.241 r^2 + 0.691 g^2 + 0.068 b^2) / 255 in fixed point: the value is
\* floor(4 * sqrt(241 r^2 + 691 g^2 + 68 b^2)), i.e. the luminance in units of
\* 1 / (4 * 255 * sqrt(1000)).
getLuminance(color) ==
    IF ~(IsNumber(color.r) /\ IsNumber(color.g) /\ IsNumber(color.b)) THEN NaN
    ELSE Sqrt(16 * ((241 * color.r * color.r) + (691 * color.g * color.g)
                    + (68 * color.b * color.b)))

\* The colours c and numbers n for which totalLuminance / data.length, the
\* luminance of c added up n times in double precision and divided by n,
\* comes out above that luminance (of the palette, with n a square up to 36).
MeanRoundsAbove ==
    { << Color(0, 192, 0), 16 >>, << Color(0, 192, 0), 25 >>,
      << Color(255, 0, 0), 16 >>,
      << Color(255, 0, 255), 16 >>, << Color(255, 0, 255), 36 >> }

\* The mean luminance of a box, kept as the fraction total / n, with whether
\* the doubles round the mean of equal luminances to above them.
AverageLuminance(data) ==
    [ total |-> Sum([ j \in 1..Len(data) |-> getLuminance(data[j].color) ]),
      n |-> Len(data),
      above |-> /\ Len(data) > 0
                /\ \A j \in 1..Len(data) : data[j].color = data[1].color
                /\ << data[1].color, Len(data) >> \in MeanRoundsAbove ]

\* luminance >= averageLuminance; false when either side is NaN.
AtLeastAverage(luminance, averageLuminance) ==
    /\ IsNumber(luminance)
    /\ IsNumber(averageLuminance.total)
    /\ \/ luminance * averageLuminance.n > averageLuminance.total
       \/ /\ luminance * averageLuminance.n = averageLuminance.total
          /\ ~averageLuminance.above

\* getBoxColors with the two means returned under each other's name.
getBoxColors_swapped(box) ==
    LET data == box.data
        averageLuminance == AverageLuminance(data)
        IsLight(pixel) == AtLeastAverage(getLuminance(pixel.color), averageLuminance)
        IsDark(pixel) == ~IsLight(pixel)
        Mean(pixels) ==
            [ r |-> FloorMean(Sum([ j \in 1..Len(pixels) |-> pixels[j].color.r ]), Len(pixels)),
              g |-> FloorMean(Sum([ j \in 1..Len(pixels) |-> pixels[j].color.g ]), Len(pixels)),
              b |-> FloorMean(Sum([ j \in 1..Len(pixels) |-> pixels[j].color.b ]), Len(pixels)) ]
    IN  [ averageLuminance |-> averageLuminance,
          light |-> Mean(SelectSeq(data, IsDark)),
          dark  |-> Mean(SelectSeq(data, IsLight)) ]

\* ---------------------------------------------------------- getBoxColors
getBoxColors(box) ==
    LET data == box.data
        averageLuminance == AverageLuminance(data)
        IsLight(pixel) == AtLeastAverage(getLuminance(pixel.color), averageLuminance)
        IsDark(pixel) == ~IsLight(pixel)
        lightPixels == SelectSeq(data, IsLight)
        darkPixels == SelectSeq(data, IsDark)
        Totals(pixels) ==
            [ r |-> Sum([ j \in 1..Len(pixels) |-> pixels[j].color.r ]),
              g |-> Sum([ j \in 1..Len(pixels) |-> pixels[j].color.g ]),
              b |-> Sum([ j \in 1..Len(pixels) |-> pixels[j].color.b ]),
              n |-> Len(pixels) ]
        Mean(totals) ==
            [ r |-> FloorMean(totals.r, totals.n),
              g |-> FloorMean(totals.g, totals.n),
              b |-> FloorMean(totals.b, totals.n) ]
    IN  [ averageLuminance |-> averageLuminance,
          light |-> Mean(Totals(lightPixels)),
          dark  |-> Mean(Totals(darkPixels)) ]

\* ------------------------------------------------------------------ QImg
QImg_MAGIC == << 99, 115, 113, 47, 113, 105, 109, 103 >>

\* #compressBoxes with the two index values exchanged.
QImg_compressBoxes_inverted(boxes) ==
    LET Compressed(box) ==
            LET colors == getBoxColors(box)
            IN  [ x |-> box.x, y |-> box.y, size |-> box.size,
                  light |-> colors.light, dark |-> colors.dark,
                  data |-> [ j \in 1..Len(box.data) |->
                      [ x |-> box.data[j].x, y |-> box.data[j].y,
                        index |-> IF AtLeastAverage(getLuminance(box.data[j].color),
                                                    colors.averageLuminance)
                                  THEN 0 ELSE 1 ] ] ]
    IN  [ size |-> boxes.size,
          data |-> [ i \in 1..Len(boxes.data) |-> Compressed(boxes.data[i]) ] ]

QImg_compressBoxes(boxes) ==
    LET Compressed(box) ==
            LET colors == getBoxColors(box)
            IN  [ x |-> box.x, y |-> box.y, size |-> box.size,
                  light |-> colors.light, dark |-> colors.dark,
                  data |-> [ j \in 1..Len(box.data) |->
                      [ x |-> box.data[j].x, y |-> box.data[j].y,
                        index |-> IF AtLeastAverage(getLuminance(box.data[j].color),
                                                    colors.averageLuminance)
                                  THEN 1 ELSE 0 ] ] ]
    IN  [ size |-> boxes.size,
          data |-> [ i \in 1..Len(boxes.data) |-> Compressed(boxes.data[i]) ] ]

\* new QImgCompressedImage(boxes, boxSize)
QImgCompressedImage(boxes, boxSize) ==
    [ codec |-> "qimg", boxes |-> boxes, boxSize |-> boxSize ]

\* The result of a call: a value, or an exception thrown.
Returned(value) == [ threw |-> FALSE, value |-> value ]
Thrown == [ threw |-> TRUE ]

\* !boxSize: true for 0, NaN and undefined.
Falsy(v) == ~IsNumber(v) \/ v = 0

QImg_compress(image, options) ==
    IF Falsy(options.boxSize) THEN Thrown
    ELSE Returned(QImgCompressedImage(
             QImg_compressBoxes(splitIntoBoxes(image, options.boxSize)),
             options.boxSize))

\* --------------------------------------------------------------- GradImg
GradImg_MAGIC == << 99, 115, 113, 47, 103, 114, 97, 100 >>
GradImg_GRADIENT_SCALE_MAX == 1

\* A gradientScale argument is the fraction num / den; an omitted argument
\* has num = Undefined, and NaN has num = NaN.
Scale(num, den) == [ num |-> num, den |-> den ]
OmittedScale == Scale(Undefined, 1)

\* The <<total, n, boxSize>> for which the double (total / n / boxSize) * 255
\* lies just above the whole number 255 * total / (n * boxSize), so that
\* Math.ceil returns the next one. There are none for a boxSize below 5; the
\* table covers the boxSize 5 and 6.
CeilRoundsAbove ==
    { <<t[1], t[2], 5>> : t \in
        { <<5, 3>>, <<10, 3>>, <<10, 6>>, <<20, 6>>, <<15, 9>>, <<30, 9>>,
          <<20, 12>>, <<40, 12>>, <<25, 15>>, <<50, 15>>, <<23, 17>>,
          <<46, 17>>, <<57, 17>>, <<65, 17>>, <<67, 17>>, <<30, 18>>,
          <<60, 18>>, <<35, 21>>, <<70, 21>>, <<40, 24>>, <<80, 24>> } }
    \cup
    { <<t[1], t[2], 6>> : t \in
        { <<22, 5>>, <<44, 10>>, <<66, 15>>, <<6, 17>>, <<12, 17>>,
          <<24, 17>>, <<42, 17>>, <<48, 17>>, <<50, 17>>, <<84, 17>>,
          <<88, 20>>, <<110, 25>>, <<132, 30>>, <<12, 34>>, <<24, 34>>,
          <<48, 34>>, <<84, 34>>, <<96, 34>>, <<100, 34>>, <<168, 34>>,
          <<154, 35>> } }

\* The ceiling of the exact quotient 255 * total / (n * boxSize).
ExactCeilPosition(total, n, boxSize) ==
    ((MAX_BYTE * total) + (n * boxSize) - 1) \div (n * boxSize)

\* Math.ceil((total / n / boxSize) * 255)
CeilPosition(total, n, boxSize) ==
    ExactCeilPosition(total, n, boxSize)
        + (IF <<total, n, boxSize>> \in CeilRoundsAbove THEN 1 ELSE 0)

GradImg_average(list, boxSize) ==
    IF Len(list) = 0 THEN [ x |-> 0, y |-> 0 ]
    ELSE LET totalPosition ==
                 [ x |-> Sum([ j \in 1..Len(list) |-> list[j].x ]),
                   y |-> Sum([ j \in 1..Len(list) |-> list[j].y ]) ]
             x == CeilPosition(totalPosition.x, Len(list), boxSize)
             y == CeilPosition(totalPosition.y, Len(list), boxSize)
         IN  [ x |-> IF x = 0 THEN 1 ELSE x, y |-> IF y = 0 THEN 1 ELSE y ]

GradImg_getCenters(box, averageLuminance) ==
    LET IsLight(pixel) == AtLeastAverage(getLuminance(pixel.color), averageLuminance)
        IsDark(pixel) == ~IsLight(pixel)
    IN  [ light |-> GradImg_average(SelectSeq(box.data, IsLight), box.size),
          dark  |-> GradImg_average(SelectSeq(box.data, IsDark), box.size) ]

\* The constructor with the test "gradientScale < 0" for "gradientScale <= 0".
GradientCompressedImage_zeroAllowed(codec, boxes, boxSize, gradientScaleArg) ==
    LET gradientScale == IF gradientScaleArg.num = Undefined THEN Scale(1, 2)
                         ELSE gradientScaleArg
    IN  IF /\ gradientScale.num # NaN
           /\ \/ gradientScale.num < 0
              \/ gradientScale.num > GradImg_GRADIENT_SCALE_MAX * gradientScale.den
        THEN Thrown
        ELSE Returned(
               [ codec |-> codec, boxes |-> boxes, boxSize |-> boxSize,
                 gradientScale |->
                     IF gradientScale.num = NaN THEN NaN
                     ELSE ((2 * MAX_BYTE * gradientScale.num) + gradientScale.den)
                              \div (2 * gradientScale.den) ])

\* The constructor of GradImgCompressedImage and of GradRgbCompressedImage
\* (the two are the same code).  The scale held is
\* Math.round(gradientScale * 255) / 255, kept as its numerator over 255.
GradientCompressedImage(codec, boxes, boxSize, gradientScaleArg) ==
    LET gradientScale == IF gradientScaleArg.num = Undefined THEN Scale(1, 2)
                         ELSE gradientScaleArg
    IN  IF /\ gradientScale.num # NaN
           /\ \/ gradientScale.num <= 0
              \/ gradientScale.num > GradImg_GRADIENT_SCALE_MAX * gradientScale.den
        THEN Thrown
        ELSE Returned(
               [ codec |-> codec, boxes |-> boxes, boxSize |-> boxSize,
                 gradientScale |->
                     IF gradientScale.num = NaN THEN NaN
                     ELSE ((2 * MAX_BYTE * gradientScale.num) + gradientScale.den)
                              \div (2 * gradientScale.den) ])

GradImgCompressedImage(boxes, boxSize, gradientScale) ==
    GradientCompressedImage("gradimg", boxes, boxSize, gradientScale)

\* compress that stores the centers as #getCenters returned them.
GradImg_compress_uncollapsed(image, options) ==
    IF Falsy(options.boxSize) THEN Thrown
    ELSE LET uncompressedBoxes == splitIntoBoxes(image, options.boxSize)
             Compressed(box) ==
                 LET colors == getBoxColors(box)
                     centers == GradImg_getCenters(box, colors.averageLuminance)
                 IN  [ x |-> box.x, y |-> box.y, size |-> box.size,
                       light |-> colors.light, dark |-> colors.dark,
                       centers |-> centers ]
         IN  GradImgCompressedImage(
                 [ size |-> uncompressedBoxes.size,
                   data |-> [ i \in 1..Len(uncompressedBoxes.data) |->
                                Compressed(uncompressedBoxes.data[i]) ] ],
                 options.boxSize, options.gradientScale)

GradImg_compress(image, options) ==
    IF Falsy(options.boxSize) THEN Thrown
    ELSE LET uncompressedBoxes == splitIntoBoxes(image, options.boxSize)
             Compressed(box) ==
                 LET colors == getBoxColors(box)
                     centers == GradImg_getCenters(box, colors.averageLuminance)
                 IN  [ x |-> box.x, y |-> box.y, size |-> box.size,
                       light |-> colors.light, dark |-> colors.dark,
                       centers |->
                           IF centers.dark.x = centers.light.x
                              /\ centers.dark.y = centers.light.y
                           THEN [ light |-> centers.light,
                                  dark |-> [ x |-> 0, y |-> 0 ] ]
                           ELSE centers ]
         IN  GradImgCompressedImage(
                 [ size |-> uncompressedBoxes.size,
                   data |-> [ i \in 1..Len(uncompressedBoxes.data) |->
                                Compressed(uncompressedBoxes.data[i]) ] ],
                 options.boxSize, options.gradientScale)

\* --------------------------------------------------------------- GradRgb
GradRgb_MAGIC == << 99, 115, 113, 47, 103, 114, 103, 98 >>

Channels == << "r", "g", "b" >>

\* The channel sums of a box; each average is total / box.data.length.
getAverageRGBOfBox(box) ==
    [ r |-> Sum([ j \in 1..Len(box.data) |-> box.data[j].color.r ]),
      g |-> Sum([ j \in 1..Len(box.data) |-> box.data[j].color.g ]),
      b |-> Sum([ j \in 1..Len(box.data) |-> box.data[j].color.b ]),
      n |-> Len(box.data) ]

GradRgb_average(list, boxSize) ==
    IF Len(list) = 0 THEN [ x |-> 0, y |-> 0, value |-> 0 ]
    ELSE LET total ==
                 [ x |-> Sum([ j \in 1..Len(list) |-> list[j].x ]),
                   y |-> Sum([ j \in 1..Len(list) |-> list[j].y ]),
                   value |-> Sum([ j \in 1..Len(list) |-> list[j].value ]) ]
             x == CeilPosition(total.x, Len(list), boxSize)
             y == CeilPosition(total.y, Len(list), boxSize)
             \* Math.round(total.value / list.length)
             value == IF ~IsNumber(total.value) THEN NaN
                      ELSE ((2 * total.value) + Len(list)) \div (2 * Len(list))
         IN  [ x |-> IF x = 0 THEN 1 ELSE x, y |-> IF y = 0 THEN 1 ELSE y,
               value |-> value ]

\* #getCenters with every channel compared with the average of red.
GradRgb_getCenters_redOnly(box) ==
    LET averages == getAverageRGBOfBox(box)
        Single(channel) ==
            [ j \in 1..Len(box.data) |->
                [ x |-> box.data[j].x, y |-> box.data[j].y,
                  value |-> box.data[j].color[channel] ] ]
        Stops(channel) ==
            LET IsLight(pixel) == /\ IsNumber(pixel.value)
                                  /\ IsNumber(averages.r)
                                  /\ pixel.value * averages.n >= averages.r
                IsDark(pixel) == ~IsLight(pixel)
            IN  [ light |-> GradRgb_average(SelectSeq(Single(channel), IsLight), box.size),
                  dark  |-> GradRgb_average(SelectSeq(Single(channel), IsDark), box.size) ]
    IN  [ r |-> Stops("r"), g |-> Stops("g"), b |-> Stops("b") ]

GradRgb_getCenters(box) ==
    LET averages == getAverageRGBOfBox(box)
        Single(channel) ==
            [ j \in 1..Len(box.data) |->
                [ x |-> box.data[j].x, y |-> box.data[j].y,
                  value |-> box.data[j].color[channel] ] ]
        Stops(channel) ==
            LET IsLight(pixel) == /\ IsNumber(pixel.value)
                                  /\ IsNumber(averages[channel])
                                  /\ pixel.value * averages.n >= averages[channel]
                IsDark(pixel) == ~IsLight(pixel)
            IN  [ light |-> GradRgb_average(SelectSeq(Single(channel), IsLight), box.size),
                  dark  |-> GradRgb_average(SelectSeq(Single(channel), IsDark), box.size) ]
    IN  [ r |-> Stops("r"), g |-> Stops("g"), b |-> Stops("b") ]

GradRgbCompressedImage(boxes, boxSize, gradientScale) ==
    GradientCompressedImage("gradrgb", boxes, boxSize, gradientScale)

GradRgb_compress(image, options) ==
    IF Falsy(options.boxSize) THEN Thrown
    ELSE LET uncompressedBoxes == splitIntoBoxes(image, options.boxSize)
             Compressed(box) ==
                 [ x |-> box.x, y |-> box.y, size |-> box.size,
                   centers |-> GradRgb_getCenters(box) ]
         IN  GradRgbCompressedImage(
                 [ size |-> uncompressedBoxes.size,
                   data |-> [ i \in 1..Len(uncompressedBoxes.data) |->
                                Compressed(uncompressedBoxes.data[i]) ] ],
                 options.boxSize, options.gradientScale)

Codecs == { "qimg", "gradimg", "gradrgb" }

compress(codec, image, options) ==
    CASE codec = "qimg"    -> QImg_compress(image, options)
      [] codec = "gradimg" -> GradImg_compress(image, options)
      [] codec = "gradrgb" -> GradRgb_compress(image, options)

\* -------------------------------------------------------------- toBuffer
\* 1 << 24: the number of boxes must stay below it.
DATA_LENGTH_LIMIT == 16777216

\* Uint8Array.from(bytes)
Uint8ArrayFrom(bytes) == [ i \in 1..Len(bytes) |-> ToUint8(bytes[i]) ]

\* The checks with every byte limit one too high.
ExceedsLimits_offByOne(image) ==
    LET boxesWidth == Quotient(image.boxes.size.width, image.boxSize)
        boxesHeight == Quotient(image.boxes.size.height, image.boxSize)
    IN  \/ GreaterThan(image.boxSize, MAX_BYTE + 1)
        \/ GreaterThan(boxesWidth, MAX_BYTE + 1)
        \/ GreaterThan(boxesHeight, MAX_BYTE + 1)
        \/ Len(image.boxes.data) >= DATA_LENGTH_LIMIT

\* The four checks every toBuffer makes before it writes the header fields.
ExceedsLimits(image) ==
    LET boxesWidth == Quotient(image.boxes.size.width, image.boxSize)
        boxesHeight == Quotient(image.boxes.size.height, image.boxSize)
    IN  \/ GreaterThan(image.boxSize, MAX_BYTE)
        \/ GreaterThan(boxesWidth, MAX_BYTE)
        \/ GreaterThan(boxesHeight, MAX_BYTE)
        \/ Len(image.boxes.data) >= DATA_LENGTH_LIMIT

\* The size fields with the data length least significant byte first.
SizeFields_littleEndian(image) ==
    << image.boxSize,
       Quotient(image.boxes.size.width, image.boxSize),
       Quotient(image.boxes.size.height, image.boxSize),
       Len(image.boxes.data) % 256,
       (Len(image.boxes.data) \div 256) % 256,
       (Len(image.boxes.data) \div 65536) % 256 >>

\* boxSize, boxesWidth, boxesHeight, then the data length as a 24 bit
\* integer, most significant byte first.
SizeFields(image) ==
    << image.boxSize,
       Quotient(image.boxes.size.width, image.boxSize),
       Quotient(image.boxes.size.height, image.boxSize),
       (Len(image.boxes.data) \div 65536) % 256,
       (Len(image.boxes.data) \div 256) % 256,
       Len(image.boxes.data) % 256 >>

QImg_version == << 0, 1 >>

QImgCompressedImage_toBuffer(image) ==
    IF ExceedsLimits(image) THEN Thrown
    ELSE LET Record(box) ==
                 << box.x, box.y,
                    box.light.r, box.light.g, box.light.b,
                    box.dark.r, box.dark.g, box.dark.b >>
                 \o [ j \in 1..Len(box.data) |-> box.data[j].index ]
         IN  Returned(Uint8ArrayFrom(
                 QImg_MAGIC \o QImg_version \o SizeFields(image)
                 \o Concat([ i \in 1..Len(image.boxes.data) |->
                               Record(image.boxes.data[i]) ])))

\* Math.max(1, Math.round(gradientScale * 255)); NaN stays NaN.
GradientScaleByte(gradientScale) ==
    IF gradientScale = NaN THEN NaN
    ELSE IF gradientScale < 1 THEN 1 ELSE gradientScale

GradImg_version == << 0, 2 >>

GradImgCompressedImage_toBuffer(image) ==
    IF ExceedsLimits(image) THEN Thrown
    ELSE LET Record(box) ==
                 << box.x, box.y,
                    box.light.r, box.light.g, box.light.b,
                    box.dark.r, box.dark.g, box.dark.b,
                    box.centers.light.x, box.centers.light.y,
                    box.centers.dark.x, box.centers.dark.y >>
         IN  Returned(Uint8ArrayFrom(
                 GradImg_MAGIC \o GradImg_version
                 \o << GradientScaleByte(image.gradientScale) >>
                 \o SizeFields(image)
                 \o Concat([ i \in 1..Len(image.boxes.data) |->
                               Record(image.boxes.data[i]) ])))

GradRgb_version == << 0, 2 >>

\* toBuffer with each stop written value first, then its position.
GradRgbCompressedImage_toBuffer_valueFirst(image) ==
    IF ExceedsLimits(image) THEN Thrown
    ELSE LET Stops(box, channel) ==
                 << box.centers[channel].light.value,
                    box.centers[channel].light.x, box.centers[channel].light.y,
                    box.centers[channel].dark.value,
                    box.centers[channel].dark.x, box.centers[channel].dark.y >>
             Record(box) ==
                 << box.x, box.y >>
                 \o Concat([ k \in 1..Len(Channels) |-> Stops(box, Channels[k]) ])
         IN  Returned(Uint8ArrayFrom(
                 GradRgb_MAGIC \o GradRgb_version
                 \o << GradientScaleByte(image.gradientScale) >>
                 \o SizeFields(image)
                 \o Concat([ i \in 1..Len(image.boxes.data) |->
                               Record(image.boxes.data[i]) ])))

GradRgbCompressedImage_toBuffer(image) ==
    IF ExceedsLimits(image) THEN Thrown
    ELSE LET Stops(box, channel) ==
                 << box.centers[channel].light.x, box.centers[channel].light.y,
                    box.centers[channel].light.value,
                    box.centers[channel].dark.x, box.centers[channel].dark.y,
                    box.centers[channel].dark.value >>
             Record(box) ==
                 << box.x, box.y >>
                 \o Concat([ k \in 1..Len(Channels) |-> Stops(box, Channels[k]) ])
         IN  Returned(Uint8ArrayFrom(
                 GradRgb_MAGIC \o GradRgb_version
                 \o << GradientScaleByte(image.gradientScale) >>
                 \o SizeFields(image)
                 \o Concat([ i \in 1..Len(image.boxes.data) |->
                               Record(image.boxes.data[i]) ])))

toBuffer(image) ==
    CASE image.codec = "qimg"    -> QImgCompressedImage_toBuffer(image)
      [] image.codec = "gradimg" -> GradImgCompressedImage_toBuffer(image)
      [] image.codec = "gradrgb" -> GradRgbCompressedImage_toBuffer(image)

\* --------------------------------------------------- toBuffer, version 0.1
GradImg_version_0_1 == << 0, 1 >>

\* toBuffer of the GradImgCompressedImage that wrote version 0.1: the image
\* holds no gradient scale and none is written.
GradImgCompressedImage_toBuffer_0_1(image) ==
    IF ExceedsLimits(image) THEN Thrown
    ELSE LET Record(box) ==
                 << box.x, box.y,
                    box.light.r, box.light.g, box.light.b,
                    box.dark.r, box.dark.g, box.dark.b,
                    box.centers.light.x, box.centers.light.y,
                    box.centers.dark.x, box.centers.dark.y >>
         IN  Returned(Uint8ArrayFrom(
                 GradImg_MAGIC \o GradImg_version_0_1
                 \o SizeFields(image)
                 \o Concat([ i \in 1..Len(image.boxes.data) |->
                               Record(image.boxes.data[i]) ])))

\* A version 0.1 GradRgb file, which GradRgb.fromBuffer accepts: the current
\* file without the gradient scale byte.
GradRgbCompressedImage_toBuffer_0_1(image) ==
    IF ExceedsLimits(image) THEN Thrown
    ELSE LET Stops(box, channel) ==
                 << box.centers[channel].light.x, box.centers[channel].light.y,
                    box.centers[channel].light.value,
                    box.centers[channel].dark.x, box.centers[channel].dark.y,
                    box.centers[channel].dark.value >>
             Record(box) ==
                 << box.x, box.y >>
                 \o Concat([ k \in 1..Len(Channels) |-> Stops(box, Channels[k]) ])
         IN  Returned(Uint8ArrayFrom(
                 GradRgb_MAGIC \o << 0, 1 >>
                 \o SizeFields(image)
                 \o Concat([ i \in 1..Len(image.boxes.data) |->
                               Record(image.boxes.data[i]) ])))

toBuffer_0_1(image) ==
    CASE image.codec = "gradimg" -> GradImgCompressedImage_toBuffer_0_1(image)
      [] image.codec = "gradrgb" -> GradRgbCompressedImage_toBuffer_0_1(image)

\* ------------------------------------------------------------ fromBuffer
\* The magic test on the first six bytes only.
MagicMatches_prefix(magic, MAGIC) ==
    \A i \in 1..Len(magic) : i <= 6 => magic[i] = MAGIC[i]

\* magic.every((value, index) => value == MAGIC[index]), magic being the
\* slice of at most 8 bytes taken from the buffer.
MagicMatches(magic, MAGIC) == \A i \in 1..Len(magic) : magic[i] = MAGIC[i]

\* (b0 << 16) | (b1 << 8) | b2; an undefined operand counts as 0.
DataLength(b0, b1, b2) ==
    LET Int32(v) == IF IsNumber(v) THEN v ELSE 0
    IN  (65536 * Int32(b0)) + (256 * Int32(b1)) + Int32(b2)

QImg_fromBuffer(data) ==
    LET header == Slice(data, 0, 16)
        rest == Slice(data, 16, Len(data))
        magic == Slice(header, 0, 8)
        headerData == Slice(header, 8, 16)
        boxSize == At(headerData, 2)
        width == At(headerData, 3)
        height == At(headerData, 4)
        dataLength == DataLength(At(headerData, 5), At(headerData, 6), At(headerData, 7))
        \* a loop "x < boxSize" runs no round for an undefined boxSize
        side == IF IsNumber(boxSize) THEN boxSize ELSE 0
        boxBytesSize == 2 + 3 + 3 + (side * side)
        Box(i) ==
            LET index == (i - 1) * boxBytesSize
                boxBytes == Slice(rest, index, index + boxBytesSize)
                boxHeader == Slice(boxBytes, 0, 8)
                pixels == Slice(boxBytes, 8, Len(boxBytes))
            IN  [ x |-> At(boxHeader, 0), y |-> At(boxHeader, 1),
                  light |-> [ r |-> At(boxHeader, 2), g |-> At(boxHeader, 3),
                              b |-> At(boxHeader, 4) ],
                  dark  |-> [ r |-> At(boxHeader, 5), g |-> At(boxHeader, 6),
                              b |-> At(boxHeader, 7) ],
                  size |-> boxSize,
                  data |-> [ j \in 1..(side * side) |->
                               [ x |-> (j - 1) % side, y |-> (j - 1) \div side,
                                 index |-> At(pixels, j - 1) ] ] ]
    IN  IF ~MagicMatches(magic, QImg_MAGIC) THEN Thrown
        ELSE Returned(QImgCompressedImage(
                 [ size |-> [ width |-> Times(width, boxSize),
                              height |-> Times(height, boxSize) ],
                   data |-> [ i \in 1..dataLength |-> Box(i) ] ],
                 boxSize))

\* The header read with a gradient scale byte whatever the version.
GradientHeader_alwaysScaled(bytes) ==
    LET versionMajor == At(bytes, 0)
        versionMinor == At(bytes, 1)
        hasGradientScaling == TRUE
        next == IF hasGradientScaling THEN 3 ELSE 2
        gradientScaleByte == At(bytes, 2)
    IN  [ gradientScale |->
              IF ~hasGradientScaling THEN Scale(1, 2)
              ELSE IF IsNumber(gradientScaleByte)
                   THEN Scale(gradientScaleByte, MAX_BYTE)
                   ELSE Scale(NaN, 1),
          boxSize |-> At(bytes, next),
          width |-> At(bytes, next + 1),
          height |-> At(bytes, next + 2),
          dataLength |-> DataLength(At(bytes, next + 3), At(bytes, next + 4),
                                    At(bytes, next + 5)),
          rest |-> Slice(bytes, next + 6, Len(bytes)) ]

\* The header fields of the two gradient formats, read with shift() from the
\* bytes after the magic: the version, the gradient scale byte unless the
\* version is 0.1, then boxSize, width, height and the data length.
GradientHeader(bytes) ==
    LET versionMajor == At(bytes, 0)
        versionMinor == At(bytes, 1)
        hasGradientScaling == ~(versionMajor = 0 /\ versionMinor = 1)
        next == IF hasGradientScaling THEN 3 ELSE 2
        gradientScaleByte == At(bytes, 2)
    IN  [ gradientScale |->
              IF ~hasGradientScaling THEN Scale(1, 2)
              ELSE IF IsNumber(gradientScaleByte)
                   THEN Scale(gradientScaleByte, MAX_BYTE)
                   ELSE Scale(NaN, 1),
          boxSize |-> At(bytes, next),
          width |-> At(bytes, next + 1),
          height |-> At(bytes, next + 2),
          dataLength |-> DataLength(At(bytes, next + 3), At(bytes, next + 4),
                                    At(bytes, next + 5)),
          rest |-> Slice(bytes, next + 6, Len(bytes)) ]

GradImg_fromBuffer(data) ==
    LET magic == Slice(data, 0, 8)
        header == GradientHeader(Slice(data, 8, Len(data)))
        boxBytesSize == 2 + 3 + 3 + 2 + 2
        Box(i) ==
            LET index == (i - 1) * boxBytesSize
                boxBytes == Slice(header.rest, index, index + boxBytesSize)
            IN  [ x |-> At(boxBytes, 0), y |-> At(boxBytes, 1),
                  light |-> [ r |-> At(boxBytes, 2), g |-> At(boxBytes, 3),
                              b |-> At(boxBytes, 4) ],
                  dark  |-> [ r |-> At(boxBytes, 5), g |-> At(boxBytes, 6),
                              b |-> At(boxBytes, 7) ],
                  size |-> header.boxSize,
                  centers |-> [ light |-> [ x |-> At(boxBytes, 8), y |-> At(boxBytes, 9) ],
                                dark  |-> [ x |-> At(boxBytes, 10), y |-> At(boxBytes, 11) ] ] ]
    IN  IF ~MagicMatches(magic, GradImg_MAGIC) THEN Thrown
        ELSE GradImgCompressedImage(
                 [ size |-> [ width |-> Times(header.width, header.boxSize),
                              height |-> Times(header.height, header.boxSize) ],
                   data |-> [ i \in 1..header.dataLength |-> Box(i) ] ],
                 header.boxSize, header.gradientScale)

GradRgb_fromBuffer(data) ==
    LET magic == Slice(data, 0, 8)
        header == GradientHeader(Slice(data, 8, Len(data)))
        boxBytesSize == 2 + (3 + 3) + (3 + 3) + (3 + 3)
        Box(i) ==
            LET index == (i - 1) * boxBytesSize
                boxBytes == Slice(header.rest, index, index + boxBytesSize)
                Stops(at) ==
                    [ light |-> [ x |-> At(boxBytes, at), y |-> At(boxBytes, at + 1),
                                  value |-> At(boxBytes, at + 2) ],
                      dark  |-> [ x |-> At(boxBytes, at + 3), y |-> At(boxBytes, at + 4),
                                  value |-> At(boxBytes, at + 5) ] ]
            IN  [ x |-> At(boxBytes, 0), y |-> At(boxBytes, 1),
                  size |-> header.boxSize,
                  centers |-> [ r |-> Stops(2), g |-> Stops(8), b |-> Stops(14) ] ]
    IN  IF ~MagicMatches(magic, GradRgb_MAGIC) THEN Thrown
        ELSE GradRgbCompressedImage(
                 [ size |-> [ width |-> Times(header.width, header.boxSize),
                              height |-> Times(header.height, header.boxSize) ],
                   data |-> [ i \in 1..header.dataLength |-> Box(i) ] ],
                 header.boxSize, header.gradientScale)

fromBuffer(codec, data) ==
    CASE codec = "qimg"    -> QImg_fromBuffer(data)
      [] codec = "gradimg" -> GradImg_fromBuffer(data)
      [] codec = "gradrgb" -> GradRgb_fromBuffer(data)

MAGIC(codec) ==
    CASE codec = "qimg"    -> QImg_MAGIC
      [] codec = "gradimg" -> GradImg_MAGIC
      [] codec = "gradrgb" -> GradRgb_MAGIC

\* ----------------------------------------------------------- toImageData
\* What a Uint8ClampedArray element holds after a number is stored in it.
ToUint8Clamped(v) ==
    IF ~IsNumber(v) THEN 0
    ELSE IF v < 0 THEN 0
    ELSE IF v > MAX_BYTE THEN MAX_BYTE
    ELSE v

\* createImageData(width, height): width * height transparent black pixels.
createImageData(width, height) ==
    [ width |-> width, height |-> height,
      data |-> [ k \in 1..(4 * width * height) |-> 0 ] ]

\* The stores of a pixel with the light colour taken for the index bit 0.
QImg_drawPixel_inverted(target, box, pixel, boxSize) ==
    LET x == Plus(Times(box.x, boxSize), pixel.x)
        y == Plus(Times(box.y, boxSize), pixel.y)
        index == Plus(Times(target.width, y), x)
        color == IF pixel.index \in { 0, NaN, Undefined } THEN box.light ELSE box.dark
    IN  IF IsNumber(index) /\ index >= 0 /\ (index * 4) + 3 < Len(target.data)
        THEN [ target EXCEPT
                 !.data[(index * 4) + 1] = ToUint8Clamped(color.r),
                 !.data[(index * 4) + 2] = ToUint8Clamped(color.g),
                 !.data[(index * 4) + 3] = ToUint8Clamped(color.b),
                 !.data[(index * 4) + 4] = MAX_BYTE ]
        ELSE target

\* The four stores of #drawBoxes for one pixel; a store past the end of the
\* array, or at an index that is not a number, changes nothing.
QImg_drawPixel(target, box, pixel, boxSize) ==
    LET x == Plus(Times(box.x, boxSize), pixel.x)
        y == Plus(Times(box.y, boxSize), pixel.y)
        index == Plus(Times(target.width, y), x)
        color == IF pixel.index \in { 0, NaN, Undefined } THEN box.dark ELSE box.light
    IN  IF IsNumber(index) /\ index >= 0 /\ (index * 4) + 3 < Len(target.data)
        THEN [ target EXCEPT
                 !.data[(index * 4) + 1] = ToUint8Clamped(color.r),
                 !.data[(index * 4) + 2] = ToUint8Clamped(color.g),
                 !.data[(index * 4) + 3] = ToUint8Clamped(color.b),
                 !.data[(index * 4) + 4] = MAX_BYTE ]
        ELSE target

\* The stores of #drawBoxes numbered lo..hi, made in order on target (the
\* range is halved, and its first half completed before the second is
\* begun, so that the evaluation stays shallow; a store never changes the
\* length of the array).
RECURSIVE QImg_drawRange(_, _, _, _, _)
QImg_drawRange(target, stores, boxSize, lo, hi) ==
    IF lo > hi THEN target
    ELSE IF lo = hi
         THEN QImg_drawPixel(target, stores[lo].box, stores[lo].pixel, boxSize)
         ELSE LET mid == (lo + hi) \div 2
                  first == QImg_drawRange(target, stores, boxSize, lo, mid)
              IN  IF Len(first.data) = Len(target.data)
                  THEN QImg_drawRange(first, stores, boxSize, mid + 1, hi)
                  ELSE first

\* #drawBoxes: for each box in order, for each pixel of it in order, the
\* pixel is stored in target.
QImg_drawBoxes(image, target) ==
    LET stores == Concat([ i \in 1..Len(image.boxes.data) |->
                            [ j \in 1..Len(image.boxes.data[i].data) |->
                                [ box |-> [ image.boxes.data[i] EXCEPT !.data = << >> ],
                                  pixel |-> image.boxes.data[i].data[j] ] ] ])
    IN  QImg_drawRange(target, stores, image.boxSize, 1, Len(stores))

QImgCompressedImage_toImageData(image) ==
    QImg_drawBoxes(image,
                   createImageData(image.boxes.size.width, image.boxes.size.height))

\* #transform(n), an exact multiple of 1 / TransformUnit:
\* boxSize / 2 + ((n / 255 - 0.5) * 2 * gradientScale) * boxSize, the scale
\* held being gradientScale / 255.
TransformUnit == 2 * MAX_BYTE * MAX_BYTE

transform(image, n) ==
    IF IsNumber(n) /\ IsNumber(image.boxSize) /\ IsNumber(image.gradientScale)
    THEN image.boxSize
           * ((MAX_BYTE * MAX_BYTE) + (2 * ((2 * n) - MAX_BYTE) * image.gradientScale))
    ELSE NaN

\* ctx.createLinearGradient(x + transform(light.x), ..., y + transform(dark.y))
\* with the two colour stops added; coordinates in 1 / TransformUnit.
LinearGradient(image, x, y, light, dark, lightColor, darkColor) ==
    LET At0(origin, n) == Plus(Times(origin, TransformUnit), transform(image, n))
    IN  [ kind |-> "gradient",
          from |-> [ x |-> At0(x, light.x), y |-> At0(y, light.y) ],
          to |-> [ x |-> At0(x, dark.x), y |-> At0(y, dark.y) ],
          stops |-> << lightColor, darkColor >> ]

\* A fillStyle that is one colour.
Solid(color) ==
    [ kind |-> "color", from |-> [ x |-> 0, y |-> 0 ], to |-> [ x |-> 0, y |-> 0 ],
      stops |-> << color >> ]

\* ctx.fillRect(x, y, width, height) under the fillStyle last assigned.
FillRect(fillStyle, x, y, width, height) ==
    [ fillStyle |-> fillStyle, x |-> x, y |-> y, width |-> width, height |-> height ]

\* toImageData that fills every box with the gradient between its stops.
GradImgCompressedImage_toImageData_alwaysGradient(image) ==
    LET Fill(box) ==
            LET x == Times(box.x, box.size)
                y == Times(box.y, box.size)
                fillStyle ==
                    LinearGradient(image, x, y, box.centers.light,
                                   box.centers.dark, box.light, box.dark)
            IN  FillRect(fillStyle, x, y, image.boxSize, image.boxSize)
    IN  [ width |-> image.boxes.size.width, height |-> image.boxes.size.height,
          globalCompositeOperation |-> "source-over",
          fills |-> << FillRect(Solid("red"), 0, 0, image.boxes.size.width,
                                image.boxes.size.height) >>
                    \o [ i \in 1..Len(image.boxes.data) |->
                           Fill(image.boxes.data[i]) ] ]

\* GradImgCompressedImage.toImageData: the canvas it creates and the
\* rectangles it fills on it, in order; the pixels returned are what the
\* canvas makes of them.
GradImgCompressedImage_toImageData(image) ==
    LET Fill(box) ==
            LET x == Times(box.x, box.size)
                y == Times(box.y, box.size)
                fillStyle ==
                    IF box.centers.dark.x = 0 /\ box.centers.dark.y = 0
                    THEN Solid(box.light)
                    ELSE IF box.centers.light.x = 0 /\ box.centers.light.y = 0
                    THEN Solid(box.dark)
                    ELSE LinearGradient(image, x, y, box.centers.light,
                                        box.centers.dark, box.light, box.dark)
            IN  FillRect(fillStyle, x, y, image.boxSize, image.boxSize)
    IN  [ width |-> image.boxes.size.width, height |-> image.boxes.size.height,
          globalCompositeOperation |-> "source-over",
          fills |-> << FillRect(Solid("red"), 0, 0, image.boxes.size.width,
                                image.boxes.size.height) >>
                    \o [ i \in 1..Len(image.boxes.data) |->
                           Fill(image.boxes.data[i]) ] ]

\* #makeColorString(value, channel) of GradRgbCompressedImage, the value
\* given in halves.
GradRgb_makeColorString(halves, channel) ==
    [ r |-> IF channel = "r" THEN halves ELSE 0,
      g |-> IF channel = "g" THEN halves ELSE 0,
      b |-> IF channel = "b" THEN halves ELSE 0 ]

\* GradRgbCompressedImage.toImageData: three rectangles per box, one per
\* channel, composed with "lighten" on a black canvas.
GradRgbCompressedImage_toImageData(image) ==
    LET Fill(box, channel) ==
            LET x == Times(box.x, box.size)
                y == Times(box.y, box.size)
                stops == box.centers[channel]
                fillStyle ==
                    IF stops.dark.x = stops.light.x /\ stops.dark.y = stops.light.y
                    THEN Solid(GradRgb_makeColorString(
                                   Plus(stops.light.value, stops.dark.value), channel))
                    ELSE IF stops.dark.x = 0 /\ stops.dark.y = 0
                    THEN Solid(GradRgb_makeColorString(
                                   Times(2, stops.light.value), channel))
                    ELSE IF stops.light.x = 0 /\ stops.light.y = 0
                    THEN Solid(GradRgb_makeColorString(
                                   Times(2, stops.dark.value), channel))
                    ELSE LinearGradient(
                             image, x, y, stops.light, stops.dark,
                             GradRgb_makeColorString(Times(2, stops.light.value), channel),
                             GradRgb_makeColorString(Times(2, stops.dark.value), channel))
            IN  FillRect(fillStyle, x, y, image.boxSize, image.boxSize)
    IN  [ width |-> image.boxes.size.width, height |-> image.boxes.size.height,
          globalCompositeOperation |-> "lighten",
          fills |-> << FillRect(Solid("black"), 0, 0, image.boxes.size.width,
                                image.boxes.size.height) >>
                    \o Concat([ i \in 1..Len(image.boxes.data) |->
                                  [ k \in 1..Len(Channels) |->
                                      Fill(image.boxes.data[i], Channels[k]) ] ]) ]

toImageData(image) ==
    CASE image.codec = "qimg"    -> QImgCompressedImage_toImageData(image)
      [] image.codec = "gradimg" -> GradImgCompressedImage_toImageData(image)
      [] image.codec = "gradrgb" -> GradRgbCompressedImage_toImageData(image)

\* ---------------------------------------------------------- state machine
\* One use of the library: an ImageData is compressed by one codec, the
\* CompressedImage is serialised, the bytes (possibly damaged or rewritten on
\* the way, in which case the reader no longer holds the image they came
\* from) are parsed by some codec, and the parsed image is serialised again.
VARIABLES
    imageData,    \* the ImageData given to compress, or NoImageData
    compressor,   \* the codec whose compress was called, or "none"
    options,      \* the options given to compress, or NoOptions
    compressed,   \* the CompressedImage compress returned, or NoImage
    buffer,       \* the bytes handed to fromBuffer, or NoBuffer
    tampered,     \* whether buffer is no longer what toBuffer returned
    reader,       \* the codec whose fromBuffer was called, or "none"
    decoded,      \* the CompressedImage fromBuffer returned, or NoImage
    reencoded,    \* the bytes toBuffer returned for decoded, or NoBuffer
    legacy,       \* whether buffer was written by the version 0.1 serializer
    pixels,       \* what compressed.toImageData() returned, or NoPixels
    error         \* the call that threw, or "none"

vars == << imageData, compressor, options, compressed, buffer, tampered, reader,
          decoded, reencoded, legacy, pixels, error >>

NoImageData == [ kind |-> "none" ]
NoOptions == [ kind |-> "none" ]
NoImage == [ codec |-> "none" ]
NoBuffer == [ kind |-> "none" ]
NoPixels == [ kind |-> "none" ]
Buffer(bytes) == [ kind |-> "Uint8Array", bytes |-> bytes ]

\* Longest file whose version or magic bytes are rewritten.
MaxRewrittenLength == 30

\* The version byte pairs written over a file's own.  Neither changes the
\* layout fromBuffer assumes: 0.2 is the gradient codecs' own version and one
\* QImg has never emitted, 9.9 is one no codec has emitted.
Versions == { << 0, 2 >>, << 9, 9 >> }

Init ==
    /\ imageData \in Images
    /\ compressor = "none"
    /\ options = NoOptions
    /\ compressed = NoImage
    /\ buffer = NoBuffer
    /\ tampered = FALSE
    /\ reader = "none"
    /\ decoded = NoImage
    /\ reencoded = NoBuffer
    /\ legacy = FALSE
    /\ pixels = NoPixels
    /\ error = "none"

\* The gradientScale options within (0, 1] that are tried: 0.001, 0.25
\* and 1; they are tried on one image, ScaledImage, the striped square one.
AcceptedScales == { Scale(1, 1000), Scale(1, 4), Scale(1, 1) }
ScaledImage == PatternImage(MaxUniformSide, MaxUniformSide, 1, 0, 0)

\* The gradientScale options tried: left out, with the box sizes 1 and 0
\* three outside (0, 1], and with the square image three within it.  QImg
\* takes no such option.
GradientScales(codec, boxSize) ==
    IF codec = "qimg" THEN { OmittedScale }
    ELSE IF boxSize \in { 0, 1 }
    THEN { OmittedScale, Scale(0, 1), Scale(-1, 2), Scale(3, 2) }
    ELSE IF boxSize = MaxUniformSide
    THEN { OmittedScale } \cup AcceptedScales
    ELSE { OmittedScale }

\* codec.compress(imageData, { boxSize, gradientScale })
Compress(codec, boxSize, gradientScale) ==
    LET given == [ boxSize |-> boxSize, gradientScale |-> gradientScale ]
        result == compress(codec, imageData, given)
    IN  /\ imageData # NoImageData
        /\ gradientScale \in AcceptedScales => imageData = ScaledImage
        /\ compressor = "none"
        /\ compressed = NoImage
        /\ buffer = NoBuffer
        /\ error = "none"
        /\ compressor' = codec
        /\ options' = given
        /\ compressed' = IF result.threw THEN NoImage ELSE result.value
        /\ error' = IF result.threw THEN "compress" ELSE "none"
        /\ UNCHANGED << imageData, buffer, tampered, reader, decoded, reencoded, legacy,
                        pixels >>

\* compressed.toBuffer()
ToBuffer ==
    LET result == toBuffer(compressed)
    IN  /\ compressed # NoImage
        /\ buffer = NoBuffer
        /\ error = "none"
        /\ buffer' = IF result.threw THEN NoBuffer ELSE Buffer(result.value)
        /\ error' = IF result.threw THEN "toBuffer" ELSE "none"
        /\ UNCHANGED << imageData, compressor, options, compressed, tampered, reader,
                        decoded, reencoded, legacy, pixels >>

\* compressed.toBuffer() of the release that wrote version 0.1, whose
\* compress is the current one without the gradientScale option.
ToBuffer_0_1 ==
    LET result == toBuffer_0_1(compressed)
    IN  /\ compressed # NoImage
        /\ compressed.codec \in { "gradimg", "gradrgb" }
        /\ options.gradientScale = OmittedScale
        /\ pixels = NoPixels
        /\ buffer = NoBuffer
        /\ error = "none"
        /\ buffer' = IF result.threw THEN NoBuffer ELSE Buffer(result.value)
        /\ legacy' = ~result.threw
        /\ error' = IF result.threw THEN "toBuffer" ELSE "none"
        /\ UNCHANGED << imageData, compressor, options, compressed, tampered, reader,
                        decoded, reencoded, pixels >>

\* The action below with the boxes taken out of the image as they are drawn.
ToImageData_draining ==
    /\ compressed # NoImage
    /\ compressed.boxes.size.width > 0
    /\ compressed.boxes.size.height > 0
    /\ pixels = NoPixels
    /\ ~legacy
    /\ reader = "none"
    /\ error = "none"
    /\ pixels' = toImageData(compressed)
    /\ compressed' = [ compressed EXCEPT !.boxes.data = << >> ]
    /\ UNCHANGED << imageData, compressor, options, buffer, tampered, reader,
                    decoded, reencoded, legacy, error >>

\* compressed.toImageData(), before or after compressed.toBuffer(), of an
\* image of the current release whose covered region is not empty.
ToImageData ==
    /\ compressed # NoImage
    /\ compressed.boxes.size.width > 0
    /\ compressed.boxes.size.height > 0
    /\ pixels = NoPixels
    /\ ~legacy
    /\ reader = "none"
    /\ error = "none"
    /\ pixels' = toImageData(compressed)
    /\ UNCHANGED << imageData, compressor, options, compressed, buffer, tampered,
                    reader, decoded, reencoded, legacy, error >>

Untouched ==
    /\ buffer # NoBuffer
    /\ ~tampered
    /\ ~legacy
    /\ pixels = NoPixels
    /\ reader = "none"
    /\ error = "none"

Damaged(bytes) ==
    /\ buffer' = Buffer(bytes)
    /\ tampered' = TRUE
    /\ imageData' = NoImageData
    /\ compressor' = "none"
    /\ options' = NoOptions
    /\ compressed' = NoImage
    /\ pixels' = NoPixels
    /\ UNCHANGED << reader, decoded, reencoded, legacy, error >>

\* Only the first n bytes of the file arrive.
Truncate(n) ==
    /\ Untouched
    /\ n < Len(buffer.bytes)
    /\ Damaged(SubSeq(buffer.bytes, 1, n))

\* The two version bytes of the file are overwritten.
SetVersion(version) ==
    /\ Untouched
    /\ Len(buffer.bytes) <= MaxRewrittenLength
    /\ version # SubSeq(buffer.bytes, 9, 10)
    /\ Damaged([ buffer.bytes EXCEPT ![9] = version[1], ![10] = version[2] ])

\* The gradient scale byte of a gradient file is overwritten.
SetGradientScaleByte(value) ==
    /\ Untouched
    /\ compressed.codec \in { "gradimg", "gradrgb" }
    /\ Len(buffer.bytes) <= MaxRewrittenLength
    /\ value # buffer.bytes[11]
    /\ Damaged([ buffer.bytes EXCEPT ![11] = value ])

\* One byte of the magic is changed.
CorruptMagic(i) ==
    /\ Untouched
    /\ Len(buffer.bytes) <= MaxRewrittenLength
    /\ Damaged([ buffer.bytes EXCEPT ![i] = (buffer.bytes[i] + 1) % (MAX_BYTE + 1) ])

\* codec.fromBuffer(buffer), by a reader who has not drawn the image.
FromBuffer(codec) ==
    LET result == fromBuffer(codec, buffer.bytes)
    IN  /\ buffer # NoBuffer
        /\ pixels = NoPixels
        /\ reader = "none"
        /\ error = "none"
        /\ reader' = codec
        /\ decoded' = IF result.threw THEN NoImage ELSE result.value
        /\ error' = IF result.threw THEN "fromBuffer" ELSE "none"
        /\ UNCHANGED << imageData, compressor, options, compressed, buffer, tampered,
                        reencoded, legacy, pixels >>

\* decoded.toBuffer()
ToBufferAgain ==
    LET result == toBuffer(decoded)
    IN  /\ decoded # NoImage
        /\ reencoded = NoBuffer
        /\ error = "none"
        /\ reencoded' = IF result.threw THEN NoBuffer ELSE Buffer(result.value)
        /\ error' = IF result.threw THEN "toBuffer" ELSE "none"
        /\ UNCHANGED << imageData, compressor, options, compressed, buffer, tampered,
                        reader, decoded, legacy, pixels >>

Next ==
    \/ \E codec \in Codecs, boxSize \in BoxSizes \cup InvalidBoxSizes :
           \E gradientScale \in GradientScales(codec, boxSize) :
               Compress(codec, boxSize, gradientScale)
    \/ ToBuffer
    \/ ToBuffer_0_1
    \/ ToImageData
    \/ \E n \in 0..MaxTruncatedLength : Truncate(n)
    \/ \E version \in Versions : SetVersion(version)
    \/ \E value \in {0, MAX_BYTE} : SetGradientScaleByte(value)
    \/ \E i \in {1, 8} : CorruptMagic(i)
    \/ \E codec \in Codecs : FromBuffer(codec)
    \/ ToBufferAgain

Spec == Init /\ [][Next]_vars

\* ---------------------------------------------------------------- claims
\* compress has returned and nothing has been done with its result yet.
JustCompressed == compressed # NoImage /\ buffer = NoBuffer /\ pixels = NoPixels

\* The uncompressed boxes compress cut imageData into.
SourceBoxes == splitIntoBoxes(imageData, compressed.boxSize)

\* The colour of the source pixel at (x, y).
SourceColor(x, y) ==
    [ r |-> At(imageData.data, 4 * ((y * imageData.width) + x)),
      g |-> At(imageData.data, 4 * ((y * imageData.width) + x) + 1),
      b |-> At(imageData.data, 4 * ((y * imageData.width) + x) + 2) ]

\* buffer is what the current toBuffer returned for compressed.
Serialised == buffer # NoBuffer /\ ~tampered /\ ~legacy

\* The file was parsed, undamaged, by the codec that wrote it.
RoundTripped ==
    /\ compressed # NoImage
    /\ ~tampered
    /\ ~legacy
    /\ reader = compressed.codec
    /\ error # "fromBuffer"

\* C1: for each codec and every pixel buffer whose width and height are exact
\* multiples of boxSize, fromBuffer(toBuffer(compress(P, boxSize))) equals
\* compress(P, boxSize) field by field: boxSize, covered size, gradient scale
\* and every box's x, y, size, colours or values, positions and index bits.
C1_RoundTripExact ==
    ( /\ RoundTripped
      /\ compressed.boxSize > 0
      /\ imageData.width % compressed.boxSize = 0
      /\ imageData.height % compressed.boxSize = 0 )
    => decoded = compressed

\* C2: for each codec and every CompressedImage C for which toBuffer
\* succeeds, toBuffer(fromBuffer(toBuffer(C))) is byte for byte toBuffer(C).
\* C is the image compress returned (whose bytes are buffer) and the image
\* fromBuffer returned (whose bytes are reencoded).
C2_ReserialisationIdempotent ==
    /\ (RoundTripped /\ reencoded # NoBuffer) => reencoded = buffer
    /\ reencoded # NoBuffer =>
           LET again == fromBuffer(reader, reencoded.bytes)
           IN  /\ ~again.threw
               /\ toBuffer(again.value) = Returned(reencoded.bytes)

\* C3: splitIntoBoxes returns size = (b*floor(W/b), b*floor(H/b)); every
\* pixel placed in a box has absolute coordinates (box.x*b + pixel.x,
\* box.y*b + pixel.y) strictly inside that region and is the source pixel at
\* those coordinates; no source pixel outside the region is read.
C3_Cropping ==
    (JustCompressed /\ compressed.boxSize > 0) =>
        LET b == compressed.boxSize
            coveredWidth == b * (imageData.width \div b)
            coveredHeight == b * (imageData.height \div b)
            boxes == SourceBoxes
        IN  /\ boxes.size = [ width |-> coveredWidth, height |-> coveredHeight ]
            /\ compressed.boxes.size = boxes.size
            /\ \A i \in 1..Len(boxes.data) : \A j \in 1..Len(boxes.data[i].data) :
                 LET box == boxes.data[i]
                     pixel == box.data[j]
                     x == (box.x * b) + pixel.x
                     y == (box.y * b) + pixel.y
                     index == PixelIndex(imageData, box.x * b, box.y * b,
                                         pixel.x, pixel.y)
                 IN  /\ x < coveredWidth
                     /\ y < coveredHeight
                     /\ index % imageData.width < coveredWidth
                     /\ index \div imageData.width < coveredHeight
                     /\ pixel.color = SourceColor(x, y)

\* C3 happens: an image wider than the region its boxes cover was split.
C3_Witness ==
    /\ JustCompressed
    /\ compressed.boxSize > 0
    /\ imageData.width % compressed.boxSize # 0
    /\ imageData.height % compressed.boxSize = 0
    /\ Len(SourceBoxes.data) > 0
    /\ Len(compressed.boxes.data) = Len(SourceBoxes.data)

\* The codecs that store one light and one dark colour per box.
HasTones == compressed.codec \in { "qimg", "gradimg" }

\* The pixels of a box (by position in row-major order) whose luminance is at
\* least the box's mean luminance, and the others.
Luminances(box) == [ j \in 1..Len(box.data) |-> getLuminance(box.data[j].color) ]
LightSet(box) ==
    LET n == Len(box.data)
        luminances == SubSeq(Luminances(box), 1, n)
        total == Sum(luminances)
    IN  { j \in 1..n : luminances[j] * n >= total }
DarkSet(box) == (1..Len(box.data)) \ LightSet(box)
ColorsOf(box, set) == { box.data[j].color : j \in set }

\* C4: for every box in which both the light set and the dark set are
\* non-empty, the luminance of the light colour is greater than or equal to
\* the luminance of the dark colour.
C4_ToneOrdering ==
    (JustCompressed /\ HasTones) =>
        \A i \in 1..Len(compressed.boxes.data) :
            LET source == SourceBoxes.data[i]
                tones == compressed.boxes.data[i]
            IN  (LightSet(source) # {} /\ DarkSet(source) # {})
                => getLuminance(tones.light) >= getLuminance(tones.dark)

\* C4, amended: for every box in which both sets are non-empty, the luminance
\* of the dark colour is below the box's mean luminance, and, when the pixels
\* of the light set all have the same colour, the luminance of the light
\* colour is at least the mean, hence at least that of the dark colour.
C4_ToneOrderingOneLightColour ==
    (JustCompressed /\ HasTones) =>
        \A i \in 1..Len(compressed.boxes.data) :
            LET source == SourceBoxes.data[i]
                tones == compressed.boxes.data[i]
                n == Len(source.data)
                total == Sum(Luminances(source))
                light == LightSet(source)
            IN  (light # {} /\ light # 1..n)
                => /\ getLuminance(tones.dark) * n < total
                   /\ Cardinality(ColorsOf(source, light)) = 1
                      => /\ getLuminance(tones.light) * n >= total
                         /\ getLuminance(tones.light) >= getLuminance(tones.dark)

\* C4 happens: a box of three colours was split into a light set of one
\* colour and a dark set of two.
C4_Witness ==
    /\ JustCompressed
    /\ HasTones
    /\ \E i \in 1..Len(compressed.boxes.data) :
          LET source == SourceBoxes.data[i]
          IN  /\ Cardinality(ColorsOf(source, LightSet(source))) = 1
              /\ Cardinality(ColorsOf(source, DarkSet(source))) = 2
              /\ getLuminance(compressed.boxes.data[i].light)
                     > getLuminance(compressed.boxes.data[i].dark)

IsByte(v) == v \in 0..MAX_BYTE

\* C5: every colour stored in a compressed box produced by compress (QImg and
\* GradImg light and dark, GradRgb per-channel light and dark values) has
\* each channel an integer in 0..255, also when one partition is empty.
C5_ColourChannelsAreBytes ==
    JustCompressed =>
        \A i \in 1..Len(compressed.boxes.data) : \A k \in 1..Len(Channels) :
            LET box == compressed.boxes.data[i]
                channel == Channels[k]
            IN  IF HasTones
                THEN IsByte(box.light[channel]) /\ IsByte(box.dark[channel])
                ELSE /\ IsByte(box.centers[channel].light.value)
                     /\ IsByte(box.centers[channel].dark.value)

\* C6: compressing with boxSize = 1 completes without error for every codec;
\* for each 1x1 box the single pixel is in the light set, the stored light
\* colour equals the pixel's colour, and the empty dark partition is given a
\* defined value (a number in every channel), not an undefined one.
C6_SinglePixelBox ==
    /\ (compressor # "none" /\ options = [ boxSize |-> 1, gradientScale |-> OmittedScale ])
       => error # "compress"
    /\ (JustCompressed /\ compressed.boxSize = 1) =>
        \A i \in 1..Len(compressed.boxes.data) : \A k \in 1..Len(Channels) :
            LET pixel == SourceBoxes.data[i].data[1].color
                box == compressed.boxes.data[i]
                channel == Channels[k]
            IN  /\ LightSet(SourceBoxes.data[i]) = {1}
                /\ IF HasTones
                   THEN /\ box.light = pixel
                        /\ IsNumber(box.dark[channel])
                   ELSE /\ box.centers[channel].light.value = pixel[channel]
                        /\ IsNumber(box.centers[channel].dark.value)
                /\ compressed.codec = "qimg" => box.data[1].index = 1

White == Color(255, 255, 255)
Black == Color(0, 0, 0)

\* C7: if every pixel of a box has one of exactly two colours c1, c2 with
\* luminance(c1) > luminance(c2), QImg.compress yields light = c1, dark = c2
\* and index bit 1 exactly at the c1 pixels, in row-major order; a 2x2 box
\* [white, white, black, black] yields light white, dark black, bits 1,1,0,0.
C7_TwoToneExact ==
    (JustCompressed /\ compressed.codec = "qimg") =>
        \A i \in 1..Len(compressed.boxes.data) :
            LET source == SourceBoxes.data[i]
                box == compressed.boxes.data[i]
                n == Len(source.data)
                colors == ColorsOf(source, 1..n)
            IN  /\ \A c1, c2 \in colors :
                     (colors = {c1, c2} /\ getLuminance(c1) > getLuminance(c2))
                     => /\ box.light = c1
                        /\ box.dark = c2
                        /\ Len(box.data) = n
                        /\ \A j \in 1..n :
                             /\ box.data[j].x = (j - 1) % compressed.boxSize
                             /\ box.data[j].y = (j - 1) \div compressed.boxSize
                             /\ box.data[j].index
                                  = (IF SourceColor((box.x * compressed.boxSize) + box.data[j].x,
                                                    (box.y * compressed.boxSize) + box.data[j].y) = c1
                                     THEN 1 ELSE 0)
                /\ [ j \in 1..n |-> source.data[j].color ] = << White, White, Black, Black >>
                   => /\ box.light = White
                      /\ box.dark = Black
                      /\ [ j \in 1..n |-> box.data[j].index ] = << 1, 1, 0, 0 >>

\* C7 happens: QImg compressed the 2x2 image [white, white, black, black]
\* with boxSize 2.
C7_Witness ==
    /\ JustCompressed
    /\ compressed.codec = "qimg"
    /\ compressed.boxSize = 2
    /\ imageData.width = 2
    /\ imageData.height = 2
    /\ [ j \in 1..4 |-> SourceBoxes.data[1].data[j].color ]
           = << White, White, Black, Black >>
    /\ [ j \in 1..4 |-> compressed.boxes.data[1].data[j].index ] = << 1, 1, 0, 0 >>

\* The number of boxes per row and per column of the compressed image.
BoxesWide == FloorQuotient(compressed.boxes.size.width, compressed.boxSize)
BoxesHigh == FloorQuotient(compressed.boxes.size.height, compressed.boxSize)

\* C8: toBuffer fails with an error and returns no bytes whenever
\* boxSize > 255, or boxesWide > 255, or boxesHigh > 255, or the number of
\* boxes >= 2^24; an image 256 boxes wide cannot be serialised.
C8_EncodingLimits ==
    ( /\ compressed # NoImage
      /\ \/ compressed.boxSize > 255
         \/ BoxesWide > 255
         \/ BoxesHigh > 255
         \/ Len(compressed.boxes.data) >= 16777216 )
    => /\ toBuffer(compressed).threw
       /\ buffer = NoBuffer

\* C8 happens: toBuffer was called on an image 256 boxes wide and threw.
C8_Witness ==
    /\ compressed # NoImage
    /\ BoxesWide = 256
    /\ error = "toBuffer"
    /\ buffer = NoBuffer

\* C9: for every byte buffer of any length, the empty buffer and buffers
\* shorter than 8 bytes included, whose first 8 bytes are not exactly the
\* codec's magic, fromBuffer fails with an error and returns no image.
C9_MagicCheck ==
    (reader # "none" /\ Slice(buffer.bytes, 0, 8) # MAGIC(reader))
    => (error = "fromBuffer" /\ decoded = NoImage)

\* The version pairs each codec's toBuffer has emitted.
EmittedVersions(codec) ==
    CASE codec = "qimg"    -> { << 0, 1 >> }
      [] codec = "gradimg" -> { << 0, 1 >>, << 0, 2 >> }
      [] codec = "gradrgb" -> { << 0, 2 >> }

\* C10: fromBuffer on a buffer with the codec's magic but a version pair the
\* codec has never emitted (9.9, or 0.2 for QImg) fails with an error.
C10_UnknownVersionRejected ==
    ( /\ reader # "none"
      /\ Len(buffer.bytes) >= 10
      /\ Slice(buffer.bytes, 0, 8) = MAGIC(reader)
      /\ Slice(buffer.bytes, 8, 10) \notin EmittedVersions(reader) )
    => (error = "fromBuffer" /\ decoded = NoImage)

\* The length of the header fromBuffer reads: magic, version, for the
\* gradient formats other than version 0.1 the gradient scale byte, then
\* boxSize, width, height and the three bytes of the data length.
HeaderLength(codec, version) ==
    IF codec = "qimg" \/ version = << 0, 1 >> THEN 16 ELSE 17

\* boxBytesSize: the bytes of one box record.
RecordSize(codec, boxSize) ==
    CASE codec = "qimg"    -> 2 + 3 + 3 + (boxSize * boxSize)
      [] codec = "gradimg" -> 2 + 3 + 3 + 2 + 2
      [] codec = "gradrgb" -> 2 + (3 + 3) + (3 + 3) + (3 + 3)

\* The buffer has the reader's magic but is shorter than its own header
\* says: the header is cut short, or there are fewer record bytes than the
\* data length of the header announces.
CutShort(codec, bytes) ==
    /\ Len(bytes) >= 8
    /\ Slice(bytes, 0, 8) = MAGIC(codec)
    /\ LET headerLength == HeaderLength(codec, Slice(bytes, 8, 10))
           boxSize == bytes[headerLength - 5]
           dataLength == DataLength(bytes[headerLength - 2], bytes[headerLength - 1],
                                    bytes[headerLength])
       IN  \/ Len(bytes) < headerLength
           \/ Len(bytes) < headerLength + (dataLength * RecordSize(codec, boxSize))

\* C11: fromBuffer on a buffer with correct magic whose length is less than
\* headerLength + recordCount * recordSize fails with an error and returns no
\* CompressedImage.
C11_TruncatedRejected ==
    (reader # "none" /\ CutShort(reader, buffer.bytes))
    => (error = "fromBuffer" /\ decoded = NoImage)

\* C12: for each codec, compress fails with an error and produces no
\* CompressedImage for every boxSize <= 0 and for a missing boxSize.
C12_InvalidBoxSizeRejected ==
    (compressor # "none" /\ (options.boxSize = Undefined \/ options.boxSize <= 0))
    => (error = "compress" /\ compressed = NoImage)

\* A gradientScale argument that is given and lies outside (0, 1].
OutsideUnitInterval(gradientScale) ==
    /\ IsNumber(gradientScale.num)
    /\ (gradientScale.num <= 0 \/ gradientScale.num > gradientScale.den)

\* C13: for GradImg and GradRgb, constructing a CompressedImage, via compress
\* or via fromBuffer, with a gradientScale <= 0 or > 1 fails with an error;
\* when gradientScale is omitted, 0.5 is used and construction succeeds.
C13_InvalidGradientScaleRejected ==
    /\ ( /\ compressor \in { "gradimg", "gradrgb" }
         /\ ~Falsy(options.boxSize) )
       => /\ OutsideUnitInterval(options.gradientScale)
             => (error = "compress" /\ compressed = NoImage)
          /\ options.gradientScale = OmittedScale
             => /\ error # "compress"
                /\ compressed # NoImage
                /\ 2 * compressed.gradientScale \in { MAX_BYTE - 1, MAX_BYTE + 1 }
    /\ ( /\ reader \in { "gradimg", "gradrgb" }
         /\ Len(buffer.bytes) >= 11
         /\ Slice(buffer.bytes, 0, 8) = MAGIC(reader)
         /\ Slice(buffer.bytes, 8, 10) # << 0, 1 >>
         /\ buffer.bytes[11] = 0 )
       => (error = "fromBuffer" /\ decoded = NoImage)

\* C13 happens: a gradient file whose gradient scale byte is 0 was given to
\* the codec it belongs to, which refused it.
C13_Witness ==
    /\ reader \in { "gradimg", "gradrgb" }
    /\ Len(buffer.bytes) >= 17
    /\ Slice(buffer.bytes, 0, 8) = MAGIC(reader)
    /\ buffer.bytes[11] = 0
    /\ error = "fromBuffer"

\* bytes is laid out as the file of image: the codec's magic, its current
\* version, for the gradient codecs one gradient scale byte, then boxSize,
\* boxesWide and boxesHigh in one byte each and the number of boxes in three
\* bytes, most significant first.
HeaderLaidOut(image, bytes) ==
    LET gradient == image.codec \in { "gradimg", "gradrgb" }
        at == IF gradient THEN 11 ELSE 10
        wide == Quotient(image.boxes.size.width, image.boxSize)
        high == Quotient(image.boxes.size.height, image.boxSize)
    IN  /\ Len(bytes) >= at + 6
        /\ \A k \in 1..(at + 6) : bytes[k] \in 0..255
        /\ SubSeq(bytes, 1, 8) = MAGIC(image.codec)
        /\ SubSeq(bytes, 9, 10) = (IF gradient THEN << 0, 2 >> ELSE << 0, 1 >>)
        /\ image.boxSize \in 0..255 => bytes[at + 1] = image.boxSize
        /\ wide \in 0..255 => bytes[at + 2] = wide
        /\ high \in 0..255 => bytes[at + 3] = high
        /\ (65536 * bytes[at + 4]) + (256 * bytes[at + 5]) + bytes[at + 6]
               = Len(image.boxes.data)

\* C14: every successful toBuffer output begins with the codec's 8-byte
\* magic, then the codec's current version (QImg 0.1, GradImg 0.2, GradRgb
\* 0.2), then for GradImg and GradRgb one gradientScale byte, then boxSize,
\* boxesWide, boxesHigh, then the number of boxes as 3 bytes big-endian.
C14_HeaderLayout ==
    /\ Serialised => HeaderLaidOut(compressed, buffer.bytes)
    /\ reencoded # NoBuffer => HeaderLaidOut(decoded, reencoded.bytes)

\* C14 happens: an image of 256 boxes, 128 wide and 2 high, was serialised.
C14_Witness ==
    /\ Serialised
    /\ compressed.codec = "gradimg"
    /\ Len(compressed.boxes.data) = 256
    /\ SubSeq(buffer.bytes, 12, 17) = << 1, 128, 2, 0, 1, 0 >>

\* The fields of one box in the order of its record, as numbers.
RecordFields(codec, box) ==
    CASE codec = "qimg" ->
             << box.x, box.y, box.light.r, box.light.g, box.light.b,
                box.dark.r, box.dark.g, box.dark.b >>
             \o [ j \in 1..Len(box.data) |-> box.data[j].index ]
      [] codec = "gradimg" ->
             << box.x, box.y, box.light.r, box.light.g, box.light.b,
                box.dark.r, box.dark.g, box.dark.b,
                box.centers.light.x, box.centers.light.y,
                box.centers.dark.x, box.centers.dark.y >>
      [] codec = "gradrgb" ->
             << box.x, box.y,
                box.centers.r.light.x, box.centers.r.light.y, box.centers.r.light.value,
                box.centers.r.dark.x, box.centers.r.dark.y, box.centers.r.dark.value,
                box.centers.g.light.x, box.centers.g.light.y, box.centers.g.light.value,
                box.centers.g.dark.x, box.centers.g.dark.y, box.centers.g.dark.value,
                box.centers.b.light.x, box.centers.b.light.y, box.centers.b.light.value,
                box.centers.b.dark.x, box.centers.b.dark.y, box.centers.b.dark.value >>

\* bytes holds, after the header, one record of the fixed size per box of
\* image, record i starting at headerLength + i * recordSize.
RecordsLaidOut(image, bytes) ==
    LET n == Len(image.boxes.data)
        headerLength == IF image.codec = "qimg" THEN 16 ELSE 17
        recordSize == CASE image.codec = "qimg" -> 8 + (image.boxSize * image.boxSize)
                        [] image.codec = "gradimg" -> 12
                        [] image.codec = "gradrgb" -> 20
    IN  /\ Len(bytes) = headerLength + (n * recordSize)
        /\ \A i \in 0..(n - 1) :
             LET start == headerLength + (i * recordSize)
                 fields == RecordFields(image.codec, image.boxes.data[i + 1])
             IN  /\ Len(fields) = recordSize
                 /\ \A k \in 1..recordSize :
                      /\ bytes[start + k] \in 0..255
                      /\ fields[k] \in 0..255 => bytes[start + k] = fields[k]
                      /\ (image.codec = "qimg" /\ k > 8) => bytes[start + k] \in {0, 1}

\* C15: for an image with n boxes, toBuffer returns exactly
\* 16 + n*(8 + boxSize^2) bytes for QImg, 17 + n*12 for GradImg and
\* 17 + n*20 for GradRgb, the fields of each record in the stated order,
\* record i starting at headerLength + i*recordSize.
C15_RecordSizes ==
    /\ Serialised => RecordsLaidOut(compressed, buffer.bytes)
    /\ (reencoded # NoBuffer /\ IsNumber(decoded.boxSize))
       => RecordsLaidOut(decoded, reencoded.bytes)

\* C15 happens: an image of six boxes of one pixel was serialised by QImg
\* (70 bytes).
C15_Witness ==
    /\ Serialised
    /\ compressed.codec = "qimg"
    /\ compressed.boxSize = 1
    /\ Len(compressed.boxes.data) = 6
    /\ Len(buffer.bytes) = 70

\* A version 0.1 file was given to the codec it belongs to.
LegacyRead == legacy /\ reader = compressed.codec

\* C16: for every buffer emitted by the version 0.1 GradImg serializer (no
\* gradientScale byte, boxSize directly after the version bytes), the current
\* GradImg.fromBuffer succeeds and yields the boxSize, the grid dimensions
\* and the box records that were written, with the gradient scale of an
\* image constructed with the fixed default 0.5; the same holds for
\* GradRgb.fromBuffer on a version 0.1 buffer.
C16_LegacyVersionRead ==
    LegacyRead =>
        /\ error # "fromBuffer"
        /\ decoded # NoImage
        /\ LET bytes == buffer.bytes
               recordSize == RecordSize(reader, bytes[11])
               n == Len(compressed.boxes.data)
           IN  /\ SubSeq(bytes, 9, 10) = << 0, 1 >>
               /\ decoded.codec = reader
               /\ decoded.boxSize = bytes[11]
               /\ decoded.boxes.size = [ width |-> bytes[12] * bytes[11],
                                         height |-> bytes[13] * bytes[11] ]
               /\ compressed.boxSize \in 1..MAX_BYTE
                  => /\ decoded.boxSize = compressed.boxSize
                     /\ decoded.boxes.size = compressed.boxes.size
               /\ Len(decoded.boxes.data) = n
               /\ \A i \in 1..n :
                    LET read == RecordFields(reader, decoded.boxes.data[i])
                        written == RecordFields(reader, compressed.boxes.data[i])
                        start == 16 + ((i - 1) * recordSize)
                    IN  /\ read = SubSeq(bytes, start + 1, start + recordSize)
                        /\ decoded.boxes.data[i].size = decoded.boxSize
                        /\ \A k \in 1..recordSize :
                             IsByte(written[k]) => read[k] = written[k]
               /\ decoded.gradientScale
                      = GradientCompressedImage(reader, decoded.boxes, decoded.boxSize,
                                                Scale(1, 2)).value.gradientScale
               /\ decoded.gradientScale = compressed.gradientScale

\* C16 happens: a version 0.1 GradImg file of six boxes was parsed by
\* GradImg.fromBuffer.
C16_Witness ==
    /\ LegacyRead
    /\ reader = "gradimg"
    /\ Len(buffer.bytes) = 16 + (6 * 12)
    /\ SubSeq(buffer.bytes, 9, 16) = << 0, 1, 1, 3, 2, 0, 0, 6 >>
    /\ Len(decoded.boxes.data) = 6
    /\ 2 * decoded.gradientScale = MAX_BYTE + 1

\* C16 happens for GradRgb as well: a version 0.1 file of one box of four
\* pixels was parsed by GradRgb.fromBuffer.
C16_WitnessGradRgb ==
    /\ LegacyRead
    /\ reader = "gradrgb"
    /\ Len(buffer.bytes) = 16 + 20
    /\ decoded.boxSize = 2

\* C17: the three codecs' magics are pairwise different, so the bytes one
\* codec's toBuffer emits for any CompressedImage are rejected with an error
\* by fromBuffer of each of the other two codecs.
C17_DistinctFormats ==
    /\ \A c1, c2 \in Codecs : c1 # c2 => MAGIC(c1) # MAGIC(c2)
    /\ (Serialised /\ reader # "none" /\ reader # compressed.codec)
       => (error = "fromBuffer" /\ decoded = NoImage)
    /\ reencoded # NoBuffer
       => \A codec \in Codecs \ { decoded.codec } :
              fromBuffer(codec, reencoded.bytes) = Thrown

\* C17 happens: a GradRgb file was given to GradImg.fromBuffer, which
\* refused it.
C17_Witness ==
    /\ Serialised
    /\ compressed.codec = "gradrgb"
    /\ reader = "gradimg"
    /\ Len(buffer.bytes) > 17
    /\ error = "fromBuffer"

\* C18: for each codec, toBuffer and toImageData leave the CompressedImage's
\* box list, boxSize and gradientScale unchanged: no step changes an image
\* that is held before and after it, and calling toBuffer or toImageData
\* once more returns the bytes and the pixels returned before.
C18_NoInPlaceMutation ==
    /\ [][ /\ (compressed # NoImage /\ compressed' # NoImage)
              => compressed' = compressed
           /\ decoded # NoImage => decoded' = decoded ]_vars
    /\ [](pixels # NoPixels => toImageData(compressed) = pixels)
    /\ [](Serialised => toBuffer(compressed) = Returned(buffer.bytes))
    /\ [](legacy => toBuffer_0_1(compressed) = Returned(buffer.bytes))
    /\ [](reencoded # NoBuffer => toBuffer(decoded) = Returned(reencoded.bytes))

\* C18 happens: toImageData and then toBuffer were called on a QImg image of
\* six boxes, whose pixels are all opaque.
C18_Witness ==
    /\ Serialised
    /\ pixels # NoPixels
    /\ compressed.codec = "qimg"
    /\ Len(compressed.boxes.data) = 6
    /\ Len(pixels.data) = 24
    /\ \A q \in 1..6 : pixels.data[4 * q] = MAX_BYTE

\* C18 happens for a gradient codec as well: toImageData of a GradImg image
\* filled a box with a linear gradient.
C18_WitnessGradient ==
    /\ pixels # NoPixels
    /\ compressed.codec = "gradimg"
    /\ \E k \in 1..Len(pixels.fills) : pixels.fills[k].fillStyle.kind = "gradient"

\* C19: for a W x H image and positive boxSize b, splitIntoBoxes returns
\* exactly floor(W/b)*floor(H/b) boxes; the box at index i has
\* x = i mod floor(W/b) and y = i div floor(W/b); each box holds exactly b*b
\* pixels and the pixel at index j has relative position (j mod b, j div b)
\* and the colour of source pixel (x*b + j mod b, y*b + j div b).  The
\* compressed boxes keep that order.
C19_RowMajorOrdering ==
    (JustCompressed /\ compressed.boxSize > 0) =>
        LET b == compressed.boxSize
            wide == imageData.width \div b
            high == imageData.height \div b
            boxes == SourceBoxes.data
        IN  /\ Len(boxes) = wide * high
            /\ Len(compressed.boxes.data) = wide * high
            /\ \A i \in 0..(Len(boxes) - 1) :
                 LET box == boxes[i + 1]
                 IN  /\ box.x = i % wide
                     /\ box.y = i \div wide
                     /\ compressed.boxes.data[i + 1].x = box.x
                     /\ compressed.boxes.data[i + 1].y = box.y
                     /\ Len(box.data) = b * b
                     /\ \A j \in 0..(Len(box.data) - 1) :
                          /\ box.data[j + 1].x = j % b
                          /\ box.data[j + 1].y = j \div b
                          /\ box.data[j + 1].color
                                = SourceColor((box.x * b) + (j % b),
                                              (box.y * b) + (j \div b))

\* C19 happens: an image of 3 x 2 pixels was split into six boxes, the
\* fourth of them the first of the second row and of another colour than
\* the second box.
C19_Witness ==
    /\ JustCompressed
    /\ compressed.boxSize = 1
    /\ imageData.width = 3
    /\ imageData.height = 2
    /\ Len(SourceBoxes.data) = 6
    /\ SourceBoxes.data[4].x = 0
    /\ SourceBoxes.data[4].y = 1
    /\ SourceBoxes.data[4].data[1].color = SourceColor(0, 1)
    /\ SourceColor(0, 1) # SourceColor(1, 0)

\* C19 happens inside a box as well: a box of 2 x 2 pixels holds the pixel
\* to the right before the pixel below, the two of different colours.
C19_WitnessPixels ==
    /\ JustCompressed
    /\ compressed.boxSize = 2
    /\ Len(SourceBoxes.data) = 1
    /\ SourceBoxes.data[1].data[2].color = SourceColor(1, 0)
    /\ SourceBoxes.data[1].data[3].color = SourceColor(0, 1)
    /\ SourceColor(0, 1) # SourceColor(1, 0)

\* The colour getBoxColors stores for a set of pixels of a box: the mean of
\* each channel, rounded down.
MeanColor(box, set) ==
    LET Total(channel) ==
            Sum([ j \in 1..Len(box.data) |->
                    IF j \in set THEN box.data[j].color[channel] ELSE 0 ])
    IN  [ r |-> FloorMean(Total("r"), Cardinality(set)),
          g |-> FloorMean(Total("g"), Cardinality(set)),
          b |-> FloorMean(Total("b"), Cardinality(set)) ]

\* C20: in getBoxColors a pixel is counted in the light set exactly when its
\* luminance >= the box's mean luminance and otherwise in the dark set, and
\* QImg emits index bit 1 for exactly the pixels counted in the light set,
\* so the number of 1 bits in a box equals the size of its light set and a
\* box of identical pixels has all bits 1.
C20_BipartitionTiesToLight ==
    (JustCompressed /\ compressed.codec = "qimg" /\ compressed.boxSize > 0) =>
        \A i \in 1..Len(compressed.boxes.data) :
            LET source == SourceBoxes.data[i]
                box == compressed.boxes.data[i]
                n == Len(source.data)
                ones == { j \in 1..n : box.data[j].index = 1 }
            IN  /\ box.light = MeanColor(source, LightSet(source))
                /\ box.dark = MeanColor(source, DarkSet(source))
                /\ ones = LightSet(source)
                /\ Cardinality(ones) = Cardinality(LightSet(source))
                /\ Cardinality(ColorsOf(source, 1..n)) = 1 => ones = 1..n

\* The pixel lists a gradient codec takes the stops of a box from: the light
\* and the dark pixels of GradImg, and those of each channel of GradRgb.
LightPixels(box) ==
    LET averageLuminance == AverageLuminance(box.data)
        IsLight(pixel) == AtLeastAverage(getLuminance(pixel.color), averageLuminance)
    IN  SelectSeq(box.data, IsLight)
DarkPixels(box) ==
    LET averageLuminance == AverageLuminance(box.data)
        IsDark(pixel) == ~AtLeastAverage(getLuminance(pixel.color), averageLuminance)
    IN  SelectSeq(box.data, IsDark)
ChannelLightPixels(box, channel) ==
    LET averages == getAverageRGBOfBox(box)
        IsLight(pixel) == pixel.color[channel] * averages.n >= averages[channel]
    IN  SelectSeq(box.data, IsLight)
ChannelDarkPixels(box, channel) ==
    LET averages == getAverageRGBOfBox(box)
        IsDark(pixel) == pixel.color[channel] * averages.n < averages[channel]
    IN  SelectSeq(box.data, IsDark)
PixelLists(codec, box) ==
    IF codec = "gradimg" THEN { LightPixels(box), DarkPixels(box) }
    ELSE UNION { { ChannelLightPixels(box, Channels[c]),
                   ChannelDarkPixels(box, Channels[c]) } : c \in 1..Len(Channels) }

\* max(1, ceil(255 * meanRelativeCoordinate / boxSize)) on each axis.
MeanPosition(list, boxSize) ==
    LET Axis(total) ==
            LET position == ExactCeilPosition(total, Len(list), boxSize)
            IN  IF position < 1 THEN 1 ELSE position
    IN  [ x |-> Axis(Sum([ j \in 1..Len(list) |-> list[j].x ])),
          y |-> Axis(Sum([ j \in 1..Len(list) |-> list[j].y ])) ]

\* The position #average computes for a list of pixels of a box.
AveragePosition(codec, list, boxSize) ==
    IF codec = "gradimg" THEN GradImg_average(list, boxSize)
    ELSE LET average ==
                 GradRgb_average([ j \in 1..Len(list) |->
                                     [ x |-> list[j].x, y |-> list[j].y, value |-> 0 ] ],
                                 boxSize)
         IN  [ x |-> average.x, y |-> average.y ]

GradientCompressed ==
    /\ JustCompressed
    /\ compressed.codec \in { "gradimg", "gradrgb" }
    /\ compressed.boxSize > 0

\* C21: for GradImg and GradRgb, the position computed for a non-empty set
\* of pixels of a box has each axis equal to
\* max(1, ceil(255 * meanRelativeCoordinate / boxSize)), hence in 1..255;
\* the position (0, 0) is computed only for an empty set.
C21_PositionNeverZero ==
    GradientCompressed =>
        \A i \in 1..Len(SourceBoxes.data) :
            \A list \in PixelLists(compressed.codec, SourceBoxes.data[i]) :
                LET position == AveragePosition(compressed.codec, list, compressed.boxSize)
                IN  /\ Len(list) > 0 =>
                          /\ position = MeanPosition(list, compressed.boxSize)
                          /\ position.x \in 1..MAX_BYTE
                          /\ position.y \in 1..MAX_BYTE
                    /\ position = [ x |-> 0, y |-> 0 ] => Len(list) = 0

\* What remains of C21 in double precision: each axis of the position of a
\* non-empty set is the exact ceiling or one above it, lies in 1..255, and
\* (0, 0) is computed only for an empty set.
C21_PositionInRange ==
    GradientCompressed =>
        \A i \in 1..Len(SourceBoxes.data) :
            \A list \in PixelLists(compressed.codec, SourceBoxes.data[i]) :
                LET position == AveragePosition(compressed.codec, list, compressed.boxSize)
                    mean == MeanPosition(list, compressed.boxSize)
                IN  /\ Len(list) > 0 =>
                          /\ position.x \in { mean.x, mean.x + 1 } \cap (1..MAX_BYTE)
                          /\ position.y \in { mean.y, mean.y + 1 } \cap (1..MAX_BYTE)
                    /\ position = [ x |-> 0, y |-> 0 ] => Len(list) = 0

\* C22: in every box produced by GradImg.compress, if the encoded light and
\* dark positions are equal on both axes then the stored dark position is
\* absent, (0, 0); so no compressed box has a present dark position equal to
\* its light position.
C22_SingleGradientCollapse ==
    (GradientCompressed /\ compressed.codec = "gradimg") =>
        \A i \in 1..Len(compressed.boxes.data) :
            LET source == SourceBoxes.data[i]
                centers == compressed.boxes.data[i].centers
                light == GradImg_average(LightPixels(source), source.size)
                dark == GradImg_average(DarkPixels(source), source.size)
            IN  /\ centers.light = light
                /\ (dark.x = light.x /\ dark.y = light.y) =>
                       centers.dark = [ x |-> 0, y |-> 0 ]
                /\ ~(dark.x = light.x /\ dark.y = light.y) => centers.dark = dark
                /\ centers.dark # [ x |-> 0, y |-> 0 ] => centers.dark # centers.light

\* A box whose light and dark pixels have the same mean position was
\* compressed, and its dark position is stored as absent.
C22_Witness ==
    /\ GradientCompressed
    /\ compressed.codec = "gradimg"
    /\ \E i \in 1..Len(compressed.boxes.data) :
           LET source == SourceBoxes.data[i]
               light == GradImg_average(LightPixels(source), source.size)
               dark == GradImg_average(DarkPixels(source), source.size)
           IN  /\ Len(LightPixels(source)) > 0
               /\ Len(DarkPixels(source)) > 0
               /\ dark = light
               /\ compressed.boxes.data[i].centers.dark = [ x |-> 0, y |-> 0 ]

\* toImageData of the GradImg image compress returned has run.
GradImgDrawn ==
    /\ compressed # NoImage
    /\ compressed.codec = "gradimg"
    /\ pixels # NoPixels

Absent(position) == position.x = 0 /\ position.y = 0

\* The fill of box number i of the image drawn; the first fill is the
\* background.
BoxFill(i) == pixels.fills[i + 1]

\* C23: for every GradImg box, toImageData fills the box with the light
\* colour when the dark position is absent (also when both are absent), with
\* the dark colour when only the light position is absent, and with a linear
\* gradient from light at the light position to dark at the dark position
\* only when both positions are present; the rectangle filled is the boxSize
\* by boxSize region at (box.x * boxSize, box.y * boxSize).
C23_ReconstructionCases ==
    GradImgDrawn =>
        /\ Len(pixels.fills) = Len(compressed.boxes.data) + 1
        /\ \A i \in 1..Len(compressed.boxes.data) :
             LET box == compressed.boxes.data[i]
                 fill == BoxFill(i)
                 x == box.x * compressed.boxSize
                 y == box.y * compressed.boxSize
                 Point(position) ==
                     [ x |-> (x * TransformUnit) + transform(compressed, position.x),
                       y |-> (y * TransformUnit) + transform(compressed, position.y) ]
             IN  /\ fill.x = x
                 /\ fill.y = y
                 /\ fill.width = compressed.boxSize
                 /\ fill.height = compressed.boxSize
                 /\ Absent(box.centers.dark) => fill.fillStyle = Solid(box.light)
                 /\ (Absent(box.centers.light) /\ ~Absent(box.centers.dark)) =>
                        fill.fillStyle = Solid(box.dark)
                 /\ fill.fillStyle.kind = "gradient" <=>
                        (~Absent(box.centers.light) /\ ~Absent(box.centers.dark))
                 /\ fill.fillStyle.kind = "gradient" =>
                        /\ fill.fillStyle.stops = << box.light, box.dark >>
                        /\ fill.fillStyle.from = Point(box.centers.light)
                        /\ fill.fillStyle.to = Point(box.centers.dark)

\* An image was drawn that has a box, not the leftmost, with both positions
\* present.
C23_Witness ==
    /\ GradImgDrawn
    /\ compressed.boxSize > 1
    /\ \E i \in 1..Len(compressed.boxes.data) :
           /\ compressed.boxes.data[i].x > 0
           /\ ~Absent(compressed.boxes.data[i].centers.light)
           /\ ~Absent(compressed.boxes.data[i].centers.dark)
           /\ BoxFill(i).fillStyle.kind = "gradient"

\* An image was drawn that has a box of two tones whose dark position is
\* absent.
C23_WitnessLight ==
    /\ GradImgDrawn
    /\ \E i \in 1..Len(compressed.boxes.data) :
           /\ Absent(compressed.boxes.data[i].centers.dark)
           /\ IsNumber(compressed.boxes.data[i].dark.r)
           /\ BoxFill(i).fillStyle = Solid(compressed.boxes.data[i].light)

\* An image was drawn that has a box whose light position alone is absent.
C23_WitnessDark ==
    /\ GradImgDrawn
    /\ \E i \in 1..Len(compressed.boxes.data) :
           /\ Absent(compressed.boxes.data[i].centers.light)
           /\ ~Absent(compressed.boxes.data[i].centers.dark)
           /\ BoxFill(i).fillStyle = Solid(compressed.boxes.data[i].dark)

\* The pixels of a box that are in the light set of a channel: those whose
\* value of the channel is at least the mean of the channel over the box.
ChannelLightSet(box, channel) ==
    LET n == Len(box.data)
        total == Sum([ j \in 1..n |-> box.data[j].color[channel] ])
    IN  { j \in 1..n : box.data[j].color[channel] * n >= total }

\* The stop of a channel for a set of pixels of a box: the position #average
\* computes for the set and the mean of the channel over it, rounded.
ChannelStop(box, channel, set) ==
    LET list == SelectSeq([ j \in 1..Len(box.data) |->
                              [ j |-> j, x |-> box.data[j].x, y |-> box.data[j].y ] ],
                          LAMBDA pixel : pixel.j \in set)
        position == AveragePosition("gradrgb", list, box.size)
        total == Sum([ j \in 1..Len(box.data) |->
                         IF j \in set THEN box.data[j].color[channel] ELSE 0 ])
        n == Cardinality(set)
    IN  [ x |-> position.x, y |-> position.y,
          value |-> IF n = 0 THEN 0 ELSE ((2 * total) + n) \div (2 * n) ]

\* The box with every channel but one set to zero in all its pixels.
OnlyChannel(box, channel) ==
    [ box EXCEPT !.data =
        [ j \in 1..Len(box.data) |->
            [ box.data[j] EXCEPT !.color =
                [ c \in { "r", "g", "b" } |->
                    IF c = channel THEN box.data[j].color[c] ELSE 0 ] ] ] ]

\* C24: in GradRgb.compress, for each channel c on its own, a pixel is in
\* the light set of c exactly when its value of c >= the mean of c over the
\* box, and in the dark set otherwise; the light and dark value stored are
\* the rounded means of c over the two sets and each position stored is
\* computed from its set alone, so the stops of c do not change when the
\* other two channels of the pixels do.
C24_PerChannelBipartition ==
    (GradientCompressed /\ compressed.codec = "gradrgb") =>
        \A i \in 1..Len(compressed.boxes.data) : \A c \in 1..Len(Channels) :
            LET source == SourceBoxes.data[i]
                stored == compressed.boxes.data[i].centers[Channels[c]]
                light == ChannelLightSet(source, Channels[c])
                dark == (1..Len(source.data)) \ light
            IN  /\ stored.light = ChannelStop(source, Channels[c], light)
                /\ stored.dark = ChannelStop(source, Channels[c], dark)
                /\ stored = GradRgb_getCenters(OnlyChannel(source, Channels[c]))[Channels[c]]

\* A box was compressed in which the light sets of red and of green are
\* different and neither is the whole box.
C24_Witness ==
    /\ GradientCompressed
    /\ compressed.codec = "gradrgb"
    /\ \E i \in 1..Len(compressed.boxes.data) :
           LET source == SourceBoxes.data[i]
               all == 1..Len(source.data)
           IN  /\ ChannelLightSet(source, "r") # ChannelLightSet(source, "g")
               /\ ChannelLightSet(source, "r") # all
               /\ ChannelLightSet(source, "g") # all
               /\ compressed.boxes.data[i].centers.r.light
                      # compressed.boxes.data[i].centers.g.light

\* C25: in every box produced by GradRgb.compress, for each channel, if the
\* encoded light and dark positions of the channel are equal on both axes
\* then the dark position stored for the channel is absent, (0, 0): the
\* rule of GradImg, applied to each channel.
C25_PerChannelCollapse ==
    (GradientCompressed /\ compressed.codec = "gradrgb") =>
        \A i \in 1..Len(compressed.boxes.data) : \A c \in 1..Len(Channels) :
            LET source == SourceBoxes.data[i]
                stored == compressed.boxes.data[i].centers[Channels[c]]
                light == AveragePosition("gradrgb",
                                         ChannelLightPixels(source, Channels[c]),
                                         source.size)
                dark == AveragePosition("gradrgb",
                                        ChannelDarkPixels(source, Channels[c]),
                                        source.size)
            IN  (dark.x = light.x /\ dark.y = light.y) =>
                    (stored.dark.x = 0 /\ stored.dark.y = 0)

\* toImageData of the QImg image compress returned for a boxSize that is
\* one (a positive number) has run.
QImgDrawn ==
    /\ compressed # NoImage
    /\ compressed.codec = "qimg"
    /\ compressed.boxSize > 0
    /\ pixels # NoPixels

\* The pixel indices #drawBoxes stores at, one for each pixel record of
\* each box, in the order of the stores.
StoreIndices ==
    Concat([ i \in 1..Len(compressed.boxes.data) |->
               [ j \in 1..Len(compressed.boxes.data[i].data) |->
                   LET box == compressed.boxes.data[i]
                       pixel == box.data[j]
                   IN  (pixels.width * ((box.y * compressed.boxSize) + pixel.y))
                           + (box.x * compressed.boxSize) + pixel.x ] ])

ScaleAccepted ==
    /\ compressed # NoImage
    /\ compressed.codec \in { "gradimg", "gradrgb" }
    /\ \/ options.gradientScale = OmittedScale
       \/ options.gradientScale \in AcceptedScales

\* The byte of the gradient scale in a file of version 0.2.
ScaleByteWritten == buffer.bytes[Len(GradImg_MAGIC) + Len(GradImg_version) + 1]

\* C27: for every gradientScale the constructor of GradImg and GradRgb
\* images accepts (any value in (0, 1]), the scale held by the image is
\* k / 255 for a whole number k with 1 <= k <= 255, the gradientScale byte
\* toBuffer writes is that k, and the scale fromBuffer reads back is the
\* scale held before.
C27_ScaleQuantization ==
    ScaleAccepted =>
        /\ compressed.gradientScale \in 1..MAX_BYTE
        /\ Serialised => ScaleByteWritten = compressed.gradientScale
        /\ RoundTripped => decoded.gradientScale = compressed.gradientScale

\* What remains of C27 for a gradientScale of at least 1 / 510, which is
\* not rounded to zero.
C27_ScaleQuantizationFromHalfStep ==
    (ScaleAccepted /\ options.gradientScale # Scale(1, 1000)) =>
        /\ compressed.gradientScale \in 1..MAX_BYTE
        /\ Serialised => ScaleByteWritten = compressed.gradientScale
        /\ RoundTripped => decoded.gradientScale = compressed.gradientScale

\* A file written with the gradientScale 0.25 was read back.
C27_Witness ==
    /\ ScaleAccepted
    /\ options.gradientScale = Scale(1, 4)
    /\ RoundTripped
    /\ decoded.gradientScale = 64

\* The places of the pixels of the boxes in the source image, as pairs of
\* the pixel index (Y * width + X, for the absolute coordinates the box and
\* the relative position give) and the colour, box after box.
PlacedPixels(boxes, b) ==
    Concat([ i \in 1..Len(boxes.data) |->
               [ j \in 1..Len(boxes.data[i].data) |->
                   LET box == boxes.data[i]
                       pixel == box.data[j]
                       X == (box.x * b) + pixel.x
                       Y == (box.y * b) + pixel.y
                   IN  [ X |-> X, Y |-> Y, relative |-> << pixel.x, pixel.y >>,
                         at |-> (Y * boxes.size.width) + X,
                         color |-> pixel.color ] ] ])

\* C28: for every image and positive boxSize, each source pixel inside the
\* covered region appears in exactly one box at exactly one relative
\* position, so the pixels of all boxes together are, each once, the pixels
\* of the covered region, and no two boxes share a pixel.
C28_ExactTiling ==
    (JustCompressed /\ compressed.boxSize > 0) =>
        LET b == compressed.boxSize
            boxes == SourceBoxes
            width == b * (imageData.width \div b)
            height == b * (imageData.height \div b)
            placed == PlacedPixels(boxes, b)
        IN  /\ Len(placed) = width * height
            /\ { placed[k].at : k \in 1..Len(placed) } = 0..((width * height) - 1)
            /\ \A k \in 1..Len(placed) :
                 /\ placed[k].X \in 0..(width - 1)
                 /\ placed[k].Y \in 0..(height - 1)
                 /\ placed[k].relative = << placed[k].X % b, placed[k].Y % b >>
                 /\ placed[k].color = SourceColor(placed[k].X, placed[k].Y)
            /\ Cardinality({ << boxes.data[i].x, boxes.data[i].y >> :
                               i \in 1..Len(boxes.data) }) = Len(boxes.data)

\* An image with a remainder in its width was cut into several boxes of
\* several pixels each.
C28_Witness ==
    /\ JustCompressed
    /\ compressed.boxSize > 1
    /\ imageData.width % compressed.boxSize # 0
    /\ Len(SourceBoxes.data) > 1
    /\ Len(PlacedPixels(SourceBoxes, compressed.boxSize))
           = SourceBoxes.size.width * SourceBoxes.size.height

\* C29: in every box produced by GradImg.compress, and for every channel of
\* every box produced by GradRgb.compress, the light set is non-empty, so
\* the light position stored has both coordinates >= 1 and only the dark
\* position can be absent; a box is never drawn in the dark colour or value
\* alone.
C29_LightStopPresent ==
    /\ GradientCompressed =>
          \A i \in 1..Len(compressed.boxes.data) :
              LET source == SourceBoxes.data[i]
                  box == compressed.boxes.data[i]
              IN  IF compressed.codec = "gradimg"
                  THEN /\ Len(LightPixels(source)) > 0
                       /\ box.centers.light.x >= 1
                       /\ box.centers.light.y >= 1
                  ELSE \A c \in 1..Len(Channels) :
                           /\ Len(ChannelLightPixels(source, Channels[c])) > 0
                           /\ box.centers[Channels[c]].light.x >= 1
                           /\ box.centers[Channels[c]].light.y >= 1
    /\ (GradImgDrawn /\ compressed.boxSize > 0) =>
          \A i \in 1..Len(compressed.boxes.data) :
              ~(/\ Absent(compressed.boxes.data[i].centers.light)
                /\ BoxFill(i).fillStyle = Solid(compressed.boxes.data[i].dark))

\* What remains of C29: the light set of every channel of every GradRgb box
\* is non-empty and the light position stored has both coordinates >= 1.
C29_ChannelLightStopPresent ==
    (GradientCompressed /\ compressed.codec = "gradrgb") =>
        \A i \in 1..Len(compressed.boxes.data) : \A c \in 1..Len(Channels) :
            /\ Len(ChannelLightPixels(SourceBoxes.data[i], Channels[c])) > 0
            /\ compressed.boxes.data[i].centers[Channels[c]].light.x >= 1
            /\ compressed.boxes.data[i].centers[Channels[c]].light.y >= 1

\* fromBuffer has returned an image.
Decoded == decoded # NoImage

\* The boxSize, width and height bytes of the header fromBuffer read.
HeaderRead ==
    LET headerLength == HeaderLength(reader, Slice(buffer.bytes, 8, 10))
    IN  [ boxSize |-> At(buffer.bytes, headerLength - 6),
          boxesWide |-> At(buffer.bytes, headerLength - 5),
          boxesHigh |-> At(buffer.bytes, headerLength - 4) ]

\* The boxes of the image fit the grid of boxesWide by boxesHigh boxes of
\* boxSize.
GridConsistent(image, boxSize, boxesWide, boxesHigh) ==
    /\ IsNumber(boxSize)
    /\ IsNumber(boxesWide)
    /\ IsNumber(boxesHigh)
    /\ image.boxSize = boxSize
    /\ image.boxes.size.width = boxesWide * boxSize
    /\ image.boxes.size.height = boxesHigh * boxSize
    /\ Len(image.boxes.data) = boxesWide * boxesHigh
    /\ \A i \in 1..Len(image.boxes.data) :
           LET box == image.boxes.data[i]
           IN  /\ box.size = boxSize
               /\ IsNumber(box.x)
               /\ IsNumber(box.y)
               /\ box.x >= 0
               /\ box.y >= 0
               /\ box.x < boxesWide
               /\ box.y < boxesHigh

\* C30: every image returned by fromBuffer of any codec has width =
\* boxesWide * boxSize and height = boxesHigh * boxSize, holds exactly
\* boxesWide * boxesHigh boxes, each of the size of the header's boxSize
\* and with x < boxesWide and y < boxesHigh, so that drawing it never
\* writes outside the width by height output buffer.
C30_DecodedGridConsistent ==
    Decoded =>
        GridConsistent(decoded, HeaderRead.boxSize, HeaderRead.boxesWide,
                       HeaderRead.boxesHigh)

\* What remains of C30: the image fromBuffer returns for the bytes toBuffer
\* wrote for an image compressed with a positive boxSize, read by the codec
\* that wrote them.
C30_DecodedGridConsistentUntouched ==
    (Decoded /\ RoundTripped /\ compressed.boxSize > 0) =>
        GridConsistent(decoded, HeaderRead.boxSize, HeaderRead.boxesWide,
                       HeaderRead.boxesHigh)
====
